---- MODULE Spec2Model ----
(***************************************************************************)
(* A model of the frame-selection and grading pipeline of comic-scan:      *)
(* the grade quantizer, the golden frame selectors, the per-region         *)
(* classification and aggregation, the chunk schedulers and chunk workers, *)
(* and the analyze_video run that ties them together.                      *)
(*                                                                         *)
(* Units.  Grades are integers in hundredths of a grade point (9.8 is      *)
(* 980), confidences are integers in percent (0.30 is 30), region weights  *)
(* are integers in tenths (1.5 is 15) and optical-flow magnitudes are      *)
(* integers in tenths of a pixel (3.0 is 30).                              *)
(***************************************************************************)
EXTENDS Integers, Sequences, FiniteSets, TLC

VARIABLES
    grade_in,      \* round_to_cgc_grade: the argument `grade`
    grade_out,     \* round_to_cgc_grade(grade_in)
    grade_twice,   \* round_to_cgc_grade(grade_out)
    grade_pc,      \* "idle" | "input" | "quantized" | "requantized"
    candidates,    \* selectors: the candidate list, sorted by sharpness descending
    num_frames,    \* selectors: num_frames / max_frames, the desired count K
    min_frame_gap, \* selectors: min_frame_gap / min_gap, the minimum index gap G
    selected,      \* selectors: the returned list
    sel_pc,        \* "idle" | "input" | the selector that ran
    cls_response,  \* one classifier call: the reply, or the request raised
    cls_crop,      \* classify_regions_with_nyckel: crop_path.exists()
    cls_grade,     \* classify_region_grades: results[region_name]
    cls_defect,    \* classify_regions_with_nyckel: defect_labels[region_name]
    cls_pc,        \* "idle" | "input" | the call site that ran
    region_grades, \* run_nyckel_analysis: region_grades
    agg,           \* run_nyckel_analysis: the aggregates it computes and reports
    agg_pc,        \* "idle" | "crops" | "classified" | "aggregated"
    sch_total,     \* schedulers: total_frames
    sch_chunks,    \* schedulers: chunk_params
    sch_pc,        \* "idle" | "input" | the scheduler that ran
    chk_video,     \* chunk workers: the source video, a sequence of frames
    chk_cuda,      \* chunk workers: cuda_available (GPU workers only)
    chk_results,   \* chunk workers: the list each worker returned
    chk_all,       \* chunk workers: all_candidates, the lists concatenated
    chk_single,    \* chunk workers: one worker's pass over the whole range
    chk_pc,        \* "idle" | "input" | the worker variant that ran
    pc,              \* analyze_video: the stage the job is at
    job_video,       \* the video behind video_url, a sequence of frames
    volume,          \* /video/<scan_id> and its input.mp4 on the shared volume
    job_total_frames, \* CAP_PROP_FRAME_COUNT
    fps,             \* CAP_PROP_FPS
    job_chunk_params, \* one [start_frame, end_frame, sample_rate] per worker
    workers,         \* the analyze_frame_chunk calls of .map(), by chunk_id + 1
    collected,       \* how many results the loop over .map() has consumed
    all_candidates,
    frames_selected, \* the local `selected`
    golden_frames,
    analysis_result,
    result,          \* <<>> or <<r>>, r the dict analyze_video returns
    progress,        \* the percentages passed to update_progress, in order
    error,           \* the exception that ended the job, None if none
    fan_video,         \* fan-in: the video the workers analysed
    fan_results,       \* fan-in: the list each worker returned, by chunk
    fan_perm,          \* fan-in: an order in which the lists are concatenated
    fan_all,           \* fan-in: all_candidates, sorted, lists in chunk order
    fan_selected,      \* fan-in: the frames selected from fan_all
    fan_all_perm,      \* fan-in: all_candidates, sorted, lists in fan_perm order
    fan_selected_perm, \* fan-in: the frames selected from fan_all_perm
    fan_pc,            \* "idle" | "input" | the job variant that ran
    cov_candidates,    \* frame selection: all_candidates after the sort
    cov_selected,      \* frame selection: the local `selected`
    cov_default,       \* frame selection: what select_by_sharpness_only gives
    cov_pc,            \* "idle" | "input" | the branch that was taken
    prog_percentage,   \* update_progress: its argument `percentage`
    prog_response,     \* update_progress: what requests.patch does
    prog_row,          \* update_progress: progress_percentage of the job's row
    prog_outcome,      \* update_progress: how the call ended, <<>> before it
    prog_pc,           \* "idle" | "input" | "called"
    aln_frames,        \* aligner: the frames it is given
    aln_ref_desc,      \* aligner: number of descriptors of the reference, 0 for None
    aln_facts,         \* aligner: per frame, what detection, matching and findHomography give
    aln_aligned,       \* aligner: the list it returns, <<>> before it
    aln_pc,            \* "idle" | "input" | the function that ran
    fus_frames,        \* fusion: the aligned frames, each a row of pixels
    fus_variance,      \* fusion: variance_map, times the square of the frame count
    fus_nan,           \* fusion: a map was divided by its zero maximum
    fus_mask,          \* fusion: defect_mask, TRUE for 255
    fus_pc,            \* "idle" | "input" | the function that ran
    shp_frames,        \* analysis: the shapes of the frames as loaded
    shp_warp,          \* analysis: per frame the shape detect_and_warp_comic gives, <<>> for failure
    shp_bbox,          \* analysis: the size of the box detect_comic_boundaries gives, <<>> for None
    shp_homography,    \* analysis: per frame, whether the alignment warps it
    shp_out,           \* analysis: the shapes of reference, fused map, variance map and mask
    shp_pc,            \* "idle" | "input" | the function that ran
    box_frame,         \* detect_comic_boundaries: frame.shape[:2]
    box_rect,          \* detect_comic_boundaries: cv2.boundingRect of the largest contour, <<>> without contours
    box_result,        \* detect_comic_boundaries: the returned box, <<>> for None
    box_pc             \* "idle" | "input" | "returned"

gradeVars == <<grade_in, grade_out, grade_twice, grade_pc>>
selVars == <<candidates, num_frames, min_frame_gap, selected, sel_pc>>
clsVars == <<cls_response, cls_crop, cls_grade, cls_defect, cls_pc>>
aggVars == <<region_grades, agg, agg_pc>>
schVars == <<sch_total, sch_chunks, sch_pc>>
chkVars == <<chk_video, chk_cuda, chk_results, chk_all, chk_single, chk_pc>>
jobVars == <<pc, job_video, volume, job_total_frames, fps, job_chunk_params, workers,
             collected, all_candidates, frames_selected, golden_frames,
             analysis_result, result, progress, error>>

fanVars == <<fan_video, fan_results, fan_perm, fan_all, fan_selected,
             fan_all_perm, fan_selected_perm, fan_pc>>
covVars == <<cov_candidates, cov_selected, cov_default, cov_pc>>
\* the variables of the specifications of single stages
progVars == <<prog_percentage, prog_response, prog_row, prog_outcome, prog_pc>>

alnVars == <<aln_frames, aln_ref_desc, aln_facts, aln_aligned, aln_pc>>

fusVars == <<fus_frames, fus_variance, fus_nan, fus_mask, fus_pc>>

shpVars == <<shp_frames, shp_warp, shp_bbox, shp_homography, shp_out, shp_pc>>

boxVars == <<box_frame, box_rect, box_result, box_pc>>

cvVars == <<alnVars, fusVars, shpVars, boxVars>>

fnVars == <<fanVars, covVars, progVars, cvVars>>

vars == <<gradeVars, selVars, clsVars, aggVars, schVars, chkVars, jobVars, fnVars>>

None == "none"

Max2(a, b) == IF a >= b THEN a ELSE b
Min2(a, b) == IF a <= b THEN a ELSE b
Abs(x) == IF x < 0 THEN -x ELSE x
Range(s) == {s[i] : i \in 1..Len(s)}

(***************************************************************************)
(* Bounds of the model.                                                    *)
(***************************************************************************)
\* grades handed to the quantizer range over -MaxGradeBelow..MaxGradeIn
MaxGradeIn == 1100
MaxGradeBelow == 150
\* candidate lists handed to the selectors have at most MaxCands entries
MaxCands == 3
\* their frame numbers are the multiples of the gap up to MaxBlock of them,
\* and the frame just before each
MaxBlock == 2
\* sharpness values range over 1..MaxSharp
MaxSharp == 2
\* the desired count given to a selector ranges over 0..MaxK
MaxK == 3
\* in an aggregation run the classifier answers with one of the first
\* MaxLabels grade labels
MaxLabels == 3
\* the schedulers are run for every total_frames in 0..MaxSchedFrames
MaxSchedFrames == 1600
\* the chunk workers are run on every video of 1..MaxVideoFrames frames
MaxVideoFrames == 6
\* whose frames have a gray content in 0..MaxGray
MaxGray == 2
\* and a detail (Laplacian variance) in 1..MaxDetail
MaxDetail == 1
\* optical-flow displacement, in tenths of a pixel, per unit of gray change
MotionStep == 20
\* analyze_video is run on every video of 0..MaxJobFrames frames
MaxJobFrames == 16
\* the frame rate a decodable video reports
VideoFps == 30
\* a candidate's visibility score is in 0..MaxVisibility
MaxVisibility == 1
\* the fan-in is run on every video of 1..MaxFanFrames frames
MaxFanFrames == 16
\* the frame selection is run on lists of 0..MaxCovCands candidates
MaxCovCands == 24
\* the aligner is run on lists of 0..MaxAlignFrames frames
MaxAlignFrames == 3
\* the fusion is run on 2..MaxFuseFrames frames of FusePixels pixels
MaxFuseFrames == 3
FusePixels == 6
\* the shapes are followed through analyses of 1..MaxShapeFrames frames
MaxShapeFrames == 3
\* detect_comic_boundaries is run on a frame of BoxFrameHeight x BoxFrameWidth
BoxFrameHeight == 22
BoxFrameWidth == 24

(***************************************************************************)
(* Each specification below runs one component; the variables of the       *)
(* components it does not run keep these values.                           *)
(***************************************************************************)
GradeIdle ==
    /\ grade_in = 0
    /\ grade_out = None
    /\ grade_twice = None
    /\ grade_pc = "idle"

SelIdle ==
    /\ candidates = <<>>
    /\ num_frames = 0
    /\ min_frame_gap = 0
    /\ selected = <<>>
    /\ sel_pc = "idle"

ClsIdle ==
    /\ cls_response = [raised |-> TRUE, labelName |-> None, confidence |-> <<>>]
    /\ cls_crop = TRUE
    /\ cls_grade = None
    /\ cls_defect = None
    /\ cls_pc = "idle"

AggIdle ==
    /\ region_grades = None
    /\ agg = None
    /\ agg_pc = "idle"

SchIdle ==
    /\ sch_total = 0
    /\ sch_chunks = <<>>
    /\ sch_pc = "idle"

ChkIdle ==
    /\ chk_video = <<>>
    /\ chk_cuda = FALSE
    /\ chk_results = <<>>
    /\ chk_all = <<>>
    /\ chk_single = <<>>
    /\ chk_pc = "idle"

JobIdle ==
    /\ pc = "idle"
    /\ job_video = <<>>
    /\ volume = "empty"
    /\ job_total_frames = 0
    /\ fps = 0
    /\ job_chunk_params = <<>>
    /\ workers = <<>>
    /\ collected = 0
    /\ all_candidates = <<>>
    /\ frames_selected = <<>>
    /\ golden_frames = <<>>
    /\ analysis_result = None
    /\ result = <<>>
    /\ progress = <<>>
    /\ error = None

FanIdle ==
    /\ fan_video = <<>>
    /\ fan_results = <<>>
    /\ fan_perm = <<>>
    /\ fan_all = <<>>
    /\ fan_selected = <<>>
    /\ fan_all_perm = <<>>
    /\ fan_selected_perm = <<>>
    /\ fan_pc = "idle"

CovIdle ==
    /\ cov_candidates = <<>>
    /\ cov_selected = <<>>
    /\ cov_default = <<>>
    /\ cov_pc = "idle"

ProgIdle ==
    /\ prog_percentage = 0
    /\ prog_response = "none"
    /\ prog_row = 0
    /\ prog_outcome = <<>>
    /\ prog_pc = "idle"

AlnIdle ==
    /\ aln_frames = <<>>
    /\ aln_ref_desc = 0
    /\ aln_facts = <<>>
    /\ aln_aligned = <<>>
    /\ aln_pc = "idle"

FusIdle ==
    /\ fus_frames = <<>>
    /\ fus_variance = <<>>
    /\ fus_nan = FALSE
    /\ fus_mask = <<>>
    /\ fus_pc = "idle"

ShpIdle ==
    /\ shp_frames = <<>>
    /\ shp_warp = <<>>
    /\ shp_bbox = <<>>
    /\ shp_homography = <<>>
    /\ shp_out = <<>>
    /\ shp_pc = "idle"

BoxIdle ==
    /\ box_frame = <<>>
    /\ box_rect = <<>>
    /\ box_result = <<>>
    /\ box_pc = "idle"

CvIdle == AlnIdle /\ FusIdle /\ ShpIdle /\ BoxIdle

FnIdle == FanIdle /\ CovIdle /\ ProgIdle /\ CvIdle

(***************************************************************************)
(* Grade quantizer (cv_worker.py).                                         *)
(***************************************************************************)
VALID_CGC_GRADES ==
    <<1000, 980, 960, 940, 920, 900, 850, 800, 750, 700, 650, 600,
      550, 500, 450, 400, 350, 300, 250, 200, 180, 150, 100, 50>>

ValidGradeSet == Range(VALID_CGC_GRADES)

\* clamped = max(0.5, min(10.0, grade))
ClampGrade(grade) == Max2(50, Min2(1000, grade))

\* the for loop over VALID_CGC_GRADES from position i, with its fallback
RECURSIVE FirstGradeAtOrBelow(_, _)
FirstGradeAtOrBelow(clamped, i) ==
    IF i > Len(VALID_CGC_GRADES) THEN 50
    ELSE IF clamped >= VALID_CGC_GRADES[i] THEN VALID_CGC_GRADES[i]
    ELSE FirstGradeAtOrBelow(clamped, i + 1)

\* mutant: the comparison of the loop made strict
RECURSIVE FirstGradeStrictlyBelow(_, _)
FirstGradeStrictlyBelow(clamped, i) ==
    IF i > Len(VALID_CGC_GRADES) THEN 50
    ELSE IF clamped > VALID_CGC_GRADES[i] THEN VALID_CGC_GRADES[i]
    ELSE FirstGradeStrictlyBelow(clamped, i + 1)

round_to_cgc_grade_strict(grade) == FirstGradeStrictlyBelow(ClampGrade(grade), 1)

\* mutant: rounds to the nearest grade point, up on a tie
round_to_cgc_grade_nearest(grade) ==
    LET clamped == ClampGrade(grade)
        dist(v) == Abs(v - clamped)
    IN  CHOOSE v \in ValidGradeSet :
            \A u \in ValidGradeSet : dist(v) < dist(u) \/ (dist(v) = dist(u) /\ v >= u)

round_to_cgc_grade(grade) == FirstGradeAtOrBelow(ClampGrade(grade), 1)

(***************************************************************************)
(* Golden frame selectors (frame_selector.py, cv_worker.py,                *)
(* cv_worker_gpu.py).  A candidate is [frame_number, sharpness]; the       *)
(* selectors read only frame_number.                                       *)
(***************************************************************************)
\* min_gap = 15 of select_by_sharpness_only and of analyze_video_gpu
min_gap == 15
\* the default min_frame_gap of select_golden_frames
default_min_frame_gap == 10
\* the count analyze_video_gpu stops at
gpu_max_frames == 5

\* mutant: frames exactly gap apart count as too close
TooCloseInclusive(c, sel, gap) ==
    \E j \in 1..Len(sel) : Abs(c.frame_number - sel[j].frame_number) <= gap

\* too_close: the candidate is nearer than gap to a frame already selected
TooClose(c, sel, gap) ==
    \E j \in 1..Len(sel) : Abs(c.frame_number - sel[j].frame_number) < gap

\* the selection loop from candidate i on: append unless too close, then
\* stop once len(selected) >= count
RECURSIVE SelectLoop(_, _, _, _, _)
SelectLoop(cands, i, sel, count, gap) ==
    IF i > Len(cands) THEN sel
    ELSE LET sel2 == IF TooClose(cands[i], sel, gap) THEN sel
                     ELSE Append(sel, cands[i])
         IN  IF Len(sel2) >= count THEN sel2
             ELSE SelectLoop(cands, i + 1, sel2, count, gap)

select_golden_frames(cands, count, gap) == SelectLoop(cands, 1, <<>>, count, gap)

select_by_sharpness_only(cands, max_frames) ==
    SelectLoop(cands, 1, <<>>, max_frames, min_gap)

gpu_inline_select(cands) == SelectLoop(cands, 1, <<>>, gpu_max_frames, min_gap)

FrameUniverse ==
    {min_gap * q : q \in 0..MaxBlock} \cup {min_gap * q - 1 : q \in 1..MaxBlock}

Candidate == [frame_number : FrameUniverse, sharpness : 1..MaxSharp]

\* sorted by sharpness, highest first, as every caller sorts before selecting
SortedBySharpness(cands) ==
    \A i \in 1..(Len(cands) - 1) : cands[i].sharpness >= cands[i + 1].sharpness

\* frameIndex is unique within one video's candidate list
DistinctFrames(cands) ==
    \A i, j \in 1..Len(cands) :
        i # j => cands[i].frame_number # cands[j].frame_number

CandidateLists ==
    {cands \in UNION {[1..n -> Candidate] : n \in 0..MaxCands} :
        SortedBySharpness(cands) /\ DistinctFrames(cands)}

GapChoices == {1, default_min_frame_gap, min_gap}

InitSelect ==
    /\ GradeIdle /\ ClsIdle /\ AggIdle /\ SchIdle /\ ChkIdle /\ JobIdle /\ FnIdle
    /\ candidates \in CandidateLists
    /\ num_frames = 0
    /\ min_frame_gap = 0
    /\ selected = <<>>
    /\ sel_pc = "input"

SelectGoldenFrames ==
    /\ sel_pc = "input"
    /\ \E count \in 0..MaxK, gap \in GapChoices :
        /\ num_frames' = count
        /\ min_frame_gap' = gap
        /\ selected' = select_golden_frames(candidates, count, gap)
    /\ sel_pc' = "select_golden_frames"
    /\ UNCHANGED <<candidates, gradeVars, clsVars, aggVars, schVars, chkVars, jobVars, fnVars>>

SelectBySharpnessOnly ==
    /\ sel_pc = "input"
    /\ \E max_frames \in 0..MaxK :
        /\ num_frames' = max_frames
        /\ selected' = select_by_sharpness_only(candidates, max_frames)
    /\ min_frame_gap' = min_gap
    /\ sel_pc' = "select_by_sharpness_only"
    /\ UNCHANGED <<candidates, gradeVars, clsVars, aggVars, schVars, chkVars, jobVars, fnVars>>

SelectGpuInline ==
    /\ sel_pc = "input"
    /\ num_frames' = gpu_max_frames
    /\ min_frame_gap' = min_gap
    /\ selected' = gpu_inline_select(candidates)
    /\ sel_pc' = "analyze_video_gpu"
    /\ UNCHANGED <<candidates, gradeVars, clsVars, aggVars, schVars, chkVars, jobVars, fnVars>>

NextSelect ==
    \/ SelectGoldenFrames
    \/ SelectBySharpnessOnly
    \/ SelectGpuInline

SpecSelect == InitSelect /\ [][NextSelect]_vars

(***************************************************************************)
(* Region classification and aggregation (cv_worker.py).                   *)
(***************************************************************************)
RegionNames ==
    <<"spine", "corner_tl", "corner_tr", "corner_bl", "corner_br", "surface">>

Regions == Range(RegionNames)

CRITICAL_REGIONS == {"spine", "corner_tl", "corner_tr", "corner_bl", "corner_br"}

\* in tenths
REGION_WEIGHTS ==
    [spine |-> 15, corner_tl |-> 12, corner_tr |-> 12, corner_bl |-> 12,
     corner_br |-> 12, surface |-> 10]

\* REGION_WEIGHTS.get(region, 1.0)
WeightOf(region) ==
    IF region \in DOMAIN REGION_WEIGHTS THEN REGION_WEIGHTS[region] ELSE 10

GRADE_LABELS ==
    <<"pristine", "near_mint", "minor_wear", "moderate_wear", "heavy_wear", "damaged">>

\* LABEL_TO_GRADE.get(label, 5.5), in hundredths
LABEL_TO_GRADE(label) ==
    CASE label = "pristine" -> 1000
      [] label = "near_mint" -> 920
      [] label = "minor_wear" -> 750
      [] label = "moderate_wear" -> 550
      [] label = "heavy_wear" -> 350
      [] label = "damaged" -> 200
      [] OTHER -> 550

\* what the classifier may answer: a grade label, or a label of the defect
\* taxonomy that LABEL_TO_GRADE does not know
ClassifierLabels == Range(GRADE_LABELS) \cup {"spine_roll"}

\* A classifier call: [raised, labelName, confidence].  raised: the request
\* or raise_for_status() raised.  labelName is None and confidence is <<>>
\* when the reply lacks the key, else a label and <<percent>>.
ErrorReply == [raised |-> TRUE, labelName |-> None, confidence |-> <<>>]

\* result.get("labelName", default)
LabelOr(response, default) ==
    IF response.labelName = None THEN default ELSE response.labelName

\* result.get("confidence", 0.0)
ConfidenceOr0(response) ==
    IF response.confidence = <<>> THEN 0 ELSE response.confidence[1]

\* mutant: the reply trusted whatever its confidence
ClassifyGradeNoFloor(response) ==
    IF response.raised
    THEN [label |-> "moderate_wear", grade |-> 550, confidence |-> 0]
    ELSE LET label == LabelOr(response, "moderate_wear")
         IN  [label |-> label, grade |-> LABEL_TO_GRADE(label),
              confidence |-> ConfidenceOr0(response)]

\* one iteration of classify_region_grades: the reply of the classifier to
\* results[region_name]
ClassifyGrade(response) ==
    IF response.raised
    THEN [label |-> "moderate_wear", grade |-> 550, confidence |-> 0]
    ELSE LET label == LabelOr(response, "moderate_wear")
             confidence == ConfidenceOr0(response)
             grade == LABEL_TO_GRADE(label)
         IN  IF confidence < 30
             THEN [label |-> "uncertain", grade |-> 550, confidence |-> confidence]
             ELSE [label |-> label, grade |-> grade, confidence |-> confidence]

\* one iteration of classify_regions_with_nyckel, to defect_labels[region_name]
ClassifyDefect(crop_exists, response) ==
    IF ~crop_exists THEN <<"pristine">>
    ELSE IF response.raised THEN <<"pristine">>
    ELSE LET label_name == LabelOr(response, "pristine")
             confidence == ConfidenceOr0(response)
         IN  IF confidence >= 70 THEN <<label_name>> ELSE <<"pristine">>

Responses ==
    {ErrorReply} \cup [raised : {FALSE},
                       labelName : ClassifierLabels \cup {None},
                       confidence : {<<>>} \cup {<<c>> : c \in 0..100}]

InitClassify ==
    /\ GradeIdle /\ SelIdle /\ AggIdle /\ SchIdle /\ ChkIdle /\ JobIdle /\ FnIdle
    /\ cls_response \in Responses
    /\ cls_crop \in BOOLEAN
    /\ cls_grade = None
    /\ cls_defect = None
    /\ cls_pc = "input"

\* open(crop_path) raises when the crop is missing, inside the same try
ClassifyRegionGrade ==
    /\ cls_pc = "input"
    /\ cls_grade' = ClassifyGrade(IF cls_crop THEN cls_response ELSE ErrorReply)
    /\ cls_pc' = "classify_region_grades"
    /\ UNCHANGED <<cls_response, cls_crop, cls_defect, gradeVars, selVars, aggVars, schVars, chkVars, jobVars, fnVars>>

ClassifyRegionDefect ==
    /\ cls_pc = "input"
    /\ cls_defect' = ClassifyDefect(cls_crop, cls_response)
    /\ cls_pc' = "classify_regions_with_nyckel"
    /\ UNCHANGED <<cls_response, cls_crop, cls_grade, gradeVars, selVars, aggVars, schVars, chkVars, jobVars, fnVars>>

NextClassify ==
    \/ ClassifyRegionGrade
    \/ ClassifyRegionDefect

SpecClassify == InitClassify /\ [][NextClassify]_vars

RECURSIVE SumOver(_, _)
SumOver(S, f) ==
    IF S = {} THEN 0
    ELSE LET x == CHOOSE y \in S : TRUE IN f[x] + SumOver(S \ {x}, f)

\* mutant: the plain mean
PlainMean(grade, weight, over) ==
    LET n == Cardinality(over)
    IN  IF n > 0 THEN SumOver(over, grade) \div n ELSE 550

\* sum(grade * weight) / sum(weight) over `over`, or 5.5 without weights;
\* the quotient is cut to hundredths, which no comparison of the quantizer
\* (its grade points are multiples of 0.1) can tell from the exact quotient
WeightedAverage(grade, weight, over) ==
    LET weighted_sum == SumOver(over, [r \in over |-> grade[r] * weight[r]])
        total_weights == SumOver(over, weight)
    IN  IF total_weights > 0 THEN weighted_sum \div total_weights ELSE 550

\* mutant: every region of the reply counted, surface included
AggregatesOverAll(grades) ==
    LET g == [r \in DOMAIN grades |-> grades[r].grade]
        w == [r \in DOMAIN grades |-> WeightOf(r)]
        avg_grade_raw == WeightedAverage(g, w, DOMAIN grades)
    IN  [avg_grade_raw |-> avg_grade_raw,
         critical_avg_raw |-> avg_grade_raw,
         averageGrade |-> round_to_cgc_grade(avg_grade_raw),
         criticalRegionAvg |-> round_to_cgc_grade(avg_grade_raw)]

\* the aggregates of run_nyckel_analysis and the two it reports
Aggregates(grades) ==
    LET g == [r \in DOMAIN grades |-> grades[r].grade]
        w == [r \in DOMAIN grades |-> WeightOf(r)]
        avg_grade_raw == WeightedAverage(g, w, DOMAIN grades)
        critical_avg_raw ==
            WeightedAverage(g, w, CRITICAL_REGIONS \cap DOMAIN grades)
    IN  [avg_grade_raw |-> avg_grade_raw,
         critical_avg_raw |-> critical_avg_raw,
         averageGrade |-> round_to_cgc_grade(avg_grade_raw),
         criticalRegionAvg |-> round_to_cgc_grade(critical_avg_raw)]

\* the replies seen in an aggregation run
AggLabels == {GRADE_LABELS[i] : i \in 1..Min2(MaxLabels, Len(GRADE_LABELS))}

AggResponses ==
    {ErrorReply} \cup [raised : {FALSE}, labelName : AggLabels,
                       confidence : {<<20>>, <<90>>}]

InitAggregate ==
    /\ GradeIdle /\ SelIdle /\ ClsIdle /\ SchIdle /\ ChkIdle /\ JobIdle /\ FnIdle
    /\ region_grades = None
    /\ agg = None
    /\ agg_pc = "crops"

\* classify_region_grades(region_crops, ...): one reply per region crop
ClassifyRegionGrades ==
    /\ agg_pc = "crops"
    /\ \E reply \in [Regions -> AggResponses] :
        region_grades' = [r \in Regions |-> ClassifyGrade(reply[r])]
    /\ agg_pc' = "classified"
    /\ UNCHANGED <<agg, gradeVars, selVars, clsVars, schVars, chkVars, jobVars, fnVars>>

AggregateGrades ==
    /\ agg_pc = "classified"
    /\ agg' = Aggregates(region_grades)
    /\ agg_pc' = "aggregated"
    /\ UNCHANGED <<region_grades, gradeVars, selVars, clsVars, schVars, chkVars, jobVars, fnVars>>

NextAggregate ==
    \/ ClassifyRegionGrades
    \/ AggregateGrades

SpecAggregate == InitAggregate /\ [][NextAggregate]_vars

(***************************************************************************)
(* Chunk schedulers (analyze_video of cv_worker.py, analyze_video_gpu of   *)
(* cv_worker_gpu.py).  A chunk is [start_frame, end_frame, sample_rate].   *)
(***************************************************************************)
frame_sample_rate == 3
min_frames_per_chunk == 5
max_workers == 100
gpu_min_frames_per_chunk == 30
gpu_max_workers == 8

\* the worker count without the cap at max_workers
NumWorkersUncapped(frames, per_chunk, most) == Max2(2, frames \div per_chunk)

\* num_workers = min(max_workers, max(2, frames // min_frames_per_chunk))
NumWorkers(frames, per_chunk, most) == Min2(most, Max2(2, frames \div per_chunk))

\* chunk_params of analyze_video
CpuChunkParams(total_frames) ==
    LET sampled_frames == total_frames \div frame_sample_rate
        num_workers == NumWorkers(sampled_frames, min_frames_per_chunk, max_workers)
        chunk_size == sampled_frames \div num_workers
    IN  [k \in 1..num_workers |->
            LET i == k - 1 IN
            [start_frame |-> i * chunk_size * frame_sample_rate,
             end_frame |-> IF i < num_workers - 1
                           THEN Min2((i + 1) * chunk_size * frame_sample_rate,
                                     total_frames)
                           ELSE total_frames,
             sample_rate |-> frame_sample_rate]]

\* chunk_params of analyze_video_gpu; its workers read every frame
GpuChunkParams(total_frames) ==
    LET num_workers ==
            NumWorkers(total_frames, gpu_min_frames_per_chunk, gpu_max_workers)
        chunk_size == total_frames \div num_workers
    IN  [k \in 1..num_workers |->
            LET i == k - 1 IN
            [start_frame |-> i * chunk_size,
             end_frame |-> Min2((i + 1) * chunk_size
                                  + (IF i < num_workers - 1 THEN 1 ELSE 0),
                                total_frames),
             sample_rate |-> 1]]

\* range(start_frame, end_frame, sample_rate): the frames a worker visits
ChunkFrames(chunk) ==
    {n \in chunk.start_frame..(chunk.end_frame - 1) :
        (n - chunk.start_frame) % chunk.sample_rate = 0}

InitSchedule ==
    /\ GradeIdle /\ SelIdle /\ ClsIdle /\ AggIdle /\ ChkIdle /\ JobIdle /\ FnIdle
    /\ sch_total \in 0..MaxSchedFrames
    /\ sch_chunks = <<>>
    /\ sch_pc = "input"

ScheduleCpu ==
    /\ sch_pc = "input"
    /\ sch_chunks' = CpuChunkParams(sch_total)
    /\ sch_pc' = "analyze_video"
    /\ UNCHANGED <<sch_total, gradeVars, selVars, clsVars, aggVars, chkVars, jobVars, fnVars>>

ScheduleGpu ==
    /\ sch_pc = "input"
    /\ sch_chunks' = GpuChunkParams(sch_total)
    /\ sch_pc' = "analyze_video_gpu"
    /\ UNCHANGED <<sch_total, gradeVars, selVars, clsVars, aggVars, chkVars, jobVars, fnVars>>

NextSchedule ==
    \/ ScheduleCpu
    \/ ScheduleGpu

SpecSchedule == InitSchedule /\ [][NextSchedule]_vars

(***************************************************************************)
(* The stable descending sort of Python's list.sort(reverse=True).         *)
(***************************************************************************)
\* tuples of integers, compared as Python compares tuples
KeyGreater(a, b) ==
    \E i \in 1..Len(a) : a[i] > b[i] /\ \A j \in 1..(i - 1) : a[j] = b[j]

\* list.sort(key=..., reverse=True) is stable: an entry goes behind every
\* entry whose key is not smaller
RECURSIVE InsertDesc(_, _)
InsertDesc(sorted, entry) ==
    IF sorted = <<>> THEN <<entry>>
    ELSE IF KeyGreater(entry.key, Head(sorted).key) THEN <<entry>> \o sorted
    ELSE <<Head(sorted)>> \o InsertDesc(Tail(sorted), entry)

RECURSIVE SortEntries(_, _)
SortEntries(entries, n) ==
    IF n = 0 THEN <<>> ELSE InsertDesc(SortEntries(entries, n - 1), entries[n])

\* the list left in the order of concatenation
KeepOrder(cands) == cands

\* all_candidates.sort(key=lambda x: x['sharpness'], reverse=True)
SortBySharpness(cands) ==
    LET entries == [i \in 1..Len(cands) |->
                        [item |-> cands[i], key |-> <<cands[i].sharpness>>]]
        sorted == SortEntries(entries, Len(cands))
    IN  [i \in 1..Len(cands) |-> sorted[i].item]

(***************************************************************************)
(* Chunk workers (analyze_frame_chunk and find_golden_frame_candidates of  *)
(* cv_worker.py, analyze_frame_chunk_gpu of cv_worker_gpu.py).  A video is *)
(* a sequence of frames [gray, detail]; frame_number n is video[n + 1].    *)
(* A candidate is [frame_number, sharpness, motion]; its timestamp is      *)
(* frame_number / fps and carries no further information.                  *)
(***************************************************************************)
cpu_motion_threshold == 30
gpu_motion_threshold == 10

Frame == [gray : 0..MaxGray, detail : 1..MaxDetail]

\* laplacian.var() of the gray image
Sharpness(frame) == frame.detail

\* np.mean(magnitude) of the Farneback flow between two gray images
OpticalFlowMotion(prev_gray, curr_gray) == MotionStep * Abs(curr_gray - prev_gray)

\* cap.read() returns ret = False past the last frame
ReadOk(video, frame_number) == frame_number < Len(video)

MakeCandidate(video, frame_number, motion) ==
    [frame_number |-> frame_number,
     sharpness |-> Sharpness(video[frame_number + 1]),
     motion |-> motion]

\* the frame loop of analyze_frame_chunk; prev_gray is <<>> for None
RECURSIVE FrameLoop(_, _, _, _, _, _)
FrameLoop(video, frame_number, end_frame, sample_rate, prev_gray, cands) ==
    IF frame_number >= end_frame \/ ~ReadOk(video, frame_number) THEN cands
    ELSE LET curr_gray == video[frame_number + 1].gray
             motion == IF prev_gray = <<>> THEN 0
                       ELSE OpticalFlowMotion(prev_gray[1], curr_gray)
         IN  FrameLoop(video, frame_number + sample_rate, end_frame, sample_rate,
                       <<curr_gray>>,
                       IF motion <= cpu_motion_threshold
                       THEN Append(cands, MakeCandidate(video, frame_number, motion))
                       ELSE cands)

analyze_frame_chunk(video, start_frame, end_frame, sample_rate) ==
    FrameLoop(video, start_frame, end_frame, sample_rate, <<>>, <<>>)

\* the same loop over range(total_frames), reading every frame
find_golden_frame_candidates(video, total_frames) ==
    FrameLoop(video, 0, total_frames, 1, <<>>, <<>>)

\* the frame loop of analyze_frame_chunk_gpu; prev_gray_gpu is only ever
\* assigned when cuda_available
RECURSIVE GpuFrameLoop(_, _, _, _, _, _)
GpuFrameLoop(video, frame_number, end_frame, cuda_available, prev_gray_gpu, cands) ==
    IF frame_number >= end_frame \/ ~ReadOk(video, frame_number) THEN cands
    ELSE LET curr_gray == video[frame_number + 1].gray
             motion == IF prev_gray_gpu = <<>> THEN 0
                       ELSE OpticalFlowMotion(prev_gray_gpu[1], curr_gray)
         IN  GpuFrameLoop(video, frame_number + 1, end_frame, cuda_available,
                          IF cuda_available THEN <<curr_gray>> ELSE prev_gray_gpu,
                          IF motion <= gpu_motion_threshold
                          THEN Append(cands, MakeCandidate(video, frame_number, motion))
                          ELSE cands)

analyze_frame_chunk_gpu(video, start_frame, end_frame, cuda_available) ==
    GpuFrameLoop(video, start_frame, end_frame, cuda_available, <<>>, <<>>)

\* the default motion_threshold of process_video (frame_selector.py)
default_motion_threshold == 10

\* the frame loop of process_video: every frame is read, and a candidate is
\* appended only inside `if prev_gray is not None`
RECURSIVE ProcessVideoLoop(_, _, _, _, _)
ProcessVideoLoop(video, frame_number, motion_threshold, prev_gray, cands) ==
    IF ~ReadOk(video, frame_number) THEN cands
    ELSE LET curr_gray == video[frame_number + 1].gray
             motion == IF prev_gray = <<>> THEN 0
                       ELSE OpticalFlowMotion(prev_gray[1], curr_gray)
         IN  ProcessVideoLoop(video, frame_number + 1, motion_threshold,
                              <<curr_gray>>,
                              IF prev_gray # <<>> /\ motion <= motion_threshold
                              THEN Append(cands, MakeCandidate(video, frame_number, motion))
                              ELSE cands)

\* process_video: the candidates, sorted by sharpness, highest first
process_video(video, motion_threshold) ==
    SortBySharpness(ProcessVideoLoop(video, 0, motion_threshold, <<>>, <<>>))

\* all_candidates.extend(candidates) for each worker's list in turn
RECURSIVE Extend(_, _)
Extend(lists, k) ==
    IF k > Len(lists) THEN <<>> ELSE lists[k] \o Extend(lists, k + 1)

Videos == UNION {[1..n -> Frame] : n \in 1..MaxVideoFrames}

InitChunk ==
    /\ GradeIdle /\ SelIdle /\ ClsIdle /\ AggIdle /\ SchIdle /\ JobIdle /\ FnIdle
    /\ chk_video \in Videos
    /\ chk_cuda \in BOOLEAN
    /\ chk_results = <<>>
    /\ chk_all = <<>>
    /\ chk_single = <<>>
    /\ chk_pc = "input"

\* analyze_video: one analyze_frame_chunk per chunk, lists concatenated;
\* chk_single is the same worker run once over the whole range
AnalyzeChunksCpu ==
    /\ chk_pc = "input"
    /\ LET total_frames == Len(chk_video)
           chunk_params == CpuChunkParams(total_frames)
           results == [k \in 1..Len(chunk_params) |->
                           analyze_frame_chunk(chk_video,
                               chunk_params[k].start_frame,
                               chunk_params[k].end_frame,
                               chunk_params[k].sample_rate)]
       IN  /\ chk_results' = results
           /\ chk_all' = Extend(results, 1)
           /\ chk_single' = analyze_frame_chunk(chk_video, 0, total_frames,
                                                frame_sample_rate)
    /\ chk_pc' = "analyze_video"
    /\ UNCHANGED <<chk_video, chk_cuda, gradeVars, selVars, clsVars, aggVars, schVars, jobVars, fnVars>>

\* analyze_video_gpu: one analyze_frame_chunk_gpu per chunk
AnalyzeChunksGpu ==
    /\ chk_pc = "input"
    /\ LET total_frames == Len(chk_video)
           chunk_params == GpuChunkParams(total_frames)
           results == [k \in 1..Len(chunk_params) |->
                           analyze_frame_chunk_gpu(chk_video,
                               chunk_params[k].start_frame,
                               chunk_params[k].end_frame,
                               chk_cuda)]
       IN  /\ chk_results' = results
           /\ chk_all' = Extend(results, 1)
           /\ chk_single' = analyze_frame_chunk_gpu(chk_video, 0, total_frames,
                                                    chk_cuda)
    /\ chk_pc' = "analyze_video_gpu"
    /\ UNCHANGED <<chk_video, chk_cuda, gradeVars, selVars, clsVars, aggVars, schVars, jobVars, fnVars>>

\* the single-pass analysis of the whole video
FindGoldenFrameCandidates ==
    /\ chk_pc = "input"
    /\ LET found == find_golden_frame_candidates(chk_video, Len(chk_video))
       IN  /\ chk_results' = <<found>>
           /\ chk_all' = found
           /\ chk_single' = found
    /\ chk_pc' = "find_golden_frame_candidates"
    /\ UNCHANGED <<chk_video, chk_cuda, gradeVars, selVars, clsVars, aggVars, schVars, jobVars, fnVars>>

\* process_video of frame_selector.py over the whole video
ProcessVideo ==
    /\ chk_pc = "input"
    /\ LET found == process_video(chk_video, default_motion_threshold)
       IN  /\ chk_results' = <<found>>
           /\ chk_all' = found
           /\ chk_single' = found
    /\ chk_pc' = "process_video"
    /\ UNCHANGED <<chk_video, chk_cuda, gradeVars, selVars, clsVars, aggVars, schVars, jobVars, fnVars>>

NextChunk ==
    \/ AnalyzeChunksCpu
    \/ AnalyzeChunksGpu
    \/ FindGoldenFrameCandidates
    \/ ProcessVideo

SpecChunk == InitChunk /\ [][NextChunk]_vars

(***************************************************************************)
(* analyze_video (cv_worker.py): the job from the first progress update to *)
(* its return or the exception that ends it, with the analyze_frame_chunk  *)
(* workers it fans out to.  analyze_video only ever reads the frames its   *)
(* workers sample, so the frames in between are left at one fixed value.   *)
(***************************************************************************)
max_retries == 3
max_candidates == 20
max_frames == 5

JobFrame == [gray : {0, MaxGray}, detail : 1..MaxDetail]
BlankFrame == [gray |-> 0, detail |-> 1]
JobVideos ==
    UNION {{v \in [1..n -> JobFrame] :
               \A i \in 1..n : (i - 1) % frame_sample_rate # 0 => v[i] = BlankFrame} :
           n \in 0..MaxJobFrames}

\* select_golden_frames_by_coverage; scores[i] is the visibility score the
\* classifier's replies give the i-th of the top candidates
select_golden_frames_by_coverage(video_frames, cands, scores) ==
    LET top_candidates == SubSeq(cands, 1, Min2(max_candidates, Len(cands)))
        readable == SelectSeq([i \in 1..Len(top_candidates) |->
                                  [frame_number |-> top_candidates[i].frame_number,
                                   sharpness |-> top_candidates[i].sharpness,
                                   motion |-> top_candidates[i].motion,
                                   visibility_score |-> scores[i]]],
                              LAMBDA c : ReadOk(video_frames, c.frame_number))
        entries == [i \in 1..Len(readable) |->
                        [item |-> readable[i],
                         key |-> <<readable[i].visibility_score,
                                   readable[i].sharpness>>]]
        sorted == SortEntries(entries, Len(readable))
        visibility_scores == [i \in 1..Len(readable) |-> sorted[i].item]
    IN  SelectLoop(visibility_scores, 1, <<>>, max_frames, min_gap)

\* the golden frame extraction loop
ExtractGoldenFrames(video_frames, sel) ==
    LET readable == SelectSeq(sel, LAMBDA c : ReadOk(video_frames, c.frame_number))
    IN  [i \in 1..Len(readable) |->
            [frame_number |-> readable[i].frame_number,
             sharpness |-> readable[i].sharpness]]

\* upload_golden_frames when every upload succeeds
upload_golden_frames(frames) ==
    [success |-> TRUE,
     goldenFrames |-> [i \in 1..Len(frames) |-> frames[i].frame_number]]

Fail(exception) ==
    /\ pc' = "failed"
    /\ error' = exception

Init ==
    /\ GradeIdle /\ SelIdle /\ ClsIdle /\ AggIdle /\ SchIdle /\ ChkIdle /\ FnIdle
    /\ pc = "start"
    /\ job_video \in JobVideos
    /\ volume = "empty"
    /\ job_total_frames = 0
    /\ fps = 0
    /\ job_chunk_params = <<>>
    /\ workers = <<>>
    /\ collected = 0
    /\ all_candidates = <<>>
    /\ frames_selected = <<>>
    /\ golden_frames = <<>>
    /\ analysis_result = None
    /\ result = <<>>
    /\ progress = <<>>
    /\ error = None

\* volume_dir.mkdir, then the video is fetched and written to the volume;
\* requests.get or raise_for_status may raise before the file is opened, and
\* iter_content may raise with the file partly written
Download ==
    /\ pc = "start"
    /\ \E outcome \in {"fetched", "refused", "broken"} :
          IF outcome = "fetched"
          THEN /\ volume' = "written"
               /\ progress' = progress \o <<5, 15>>
               /\ pc' = "commit"
               /\ UNCHANGED error
          ELSE /\ progress' = Append(progress, 5)
               /\ volume' = IF outcome = "refused" THEN "created" ELSE "partial"
               /\ Fail(IF outcome = "refused" THEN "HTTPError"
                       ELSE "ChunkedEncodingError")
    /\ UNCHANGED <<job_video, job_total_frames, fps, job_chunk_params, workers, collected,
                   all_candidates, frames_selected, golden_frames,
                   analysis_result, result>>
    /\ UNCHANGED <<gradeVars, selVars, clsVars, aggVars, schVars, chkVars, fnVars>>

\* video_volume.commit(), the metadata, the chunk parameters and the start
\* of the workers; the print of total_frames/fps raises when fps is 0
CommitAndDispatch ==
    /\ pc = "commit"
    /\ volume' = "committed"
    /\ job_total_frames' = Len(job_video)
    /\ fps' = IF Len(job_video) = 0 THEN 0 ELSE VideoFps
    /\ IF fps' = 0
       THEN /\ Fail("ZeroDivisionError")
            /\ UNCHANGED <<job_chunk_params, workers, progress>>
       ELSE /\ job_chunk_params' = CpuChunkParams(job_total_frames')
            /\ workers' = [k \in 1..Len(job_chunk_params') |->
                              [st |-> "reload", attempt |-> 0, exists |-> FALSE,
                               candidates |-> <<>>]]
            /\ progress' = Append(progress, 25)
            /\ pc' = "collect"
            /\ UNCHANGED error
    /\ UNCHANGED <<job_video, collected, all_candidates, frames_selected,
                   golden_frames, analysis_result, result>>
    /\ UNCHANGED <<gradeVars, selVars, clsVars, aggVars, schVars, chkVars, fnVars>>

\* a worker's first video_volume.reload(): the committed file may or may
\* not have reached this container yet
WorkerReload(k) ==
    /\ pc = "collect"
    /\ k \in 1..Len(workers)
    /\ workers[k].st = "reload"
    /\ \E seen \in BOOLEAN :
          workers' = [workers EXCEPT ![k].st = "retry", ![k].exists = seen]
    /\ UNCHANGED <<pc, job_video, volume, job_total_frames, fps, job_chunk_params, collected,
                   all_candidates, frames_selected, golden_frames,
                   analysis_result, result, progress, error>>
    /\ UNCHANGED <<gradeVars, selVars, clsVars, aggVars, schVars, chkVars, fnVars>>

\* the retry loop without its bound: the worker waits for as long as the
\* file is missing
WorkerRetryUnbounded(k) ==
    /\ pc = "collect"
    /\ k \in 1..Len(workers)
    /\ workers[k].st = "retry"
    /\ IF workers[k].exists
       THEN workers' = [workers EXCEPT ![k].st = "open"]
       ELSE \E seen \in BOOLEAN :
               workers' = [workers EXCEPT
                              ![k].attempt = Min2(@ + 1, max_retries + 1),
                              ![k].exists = seen]
    /\ UNCHANGED <<pc, job_video, volume, job_total_frames, fps, job_chunk_params, collected,
                   all_candidates, frames_selected, golden_frames,
                   analysis_result, result, progress, error>>
    /\ UNCHANGED <<gradeVars, selVars, clsVars, aggVars, schVars, chkVars, fnVars>>

\* one pass of the retry loop: break if the file exists, else sleep and
\* reload; the loop ends after max_retries passes
WorkerRetry(k) ==
    /\ pc = "collect"
    /\ k \in 1..Len(workers)
    /\ workers[k].st = "retry"
    /\ IF workers[k].attempt >= max_retries \/ workers[k].exists
       THEN workers' = [workers EXCEPT ![k].st = "open"]
       ELSE \E seen \in BOOLEAN :
               workers' = [workers EXCEPT ![k].attempt = @ + 1, ![k].exists = seen]
    /\ UNCHANGED <<pc, job_video, volume, job_total_frames, fps, job_chunk_params, collected,
                   all_candidates, frames_selected, golden_frames,
                   analysis_result, result, progress, error>>
    /\ UNCHANGED <<gradeVars, selVars, clsVars, aggVars, schVars, chkVars, fnVars>>

\* cv2.VideoCapture: return [] if it did not open, else the frame loop
WorkerAnalyze(k) ==
    /\ pc = "collect"
    /\ k \in 1..Len(workers)
    /\ workers[k].st = "open"
    /\ workers' = [workers EXCEPT
          ![k].st = "done",
          ![k].candidates =
              IF workers[k].exists
              THEN analyze_frame_chunk(job_video, job_chunk_params[k].start_frame,
                                       job_chunk_params[k].end_frame,
                                       job_chunk_params[k].sample_rate)
              ELSE <<>>]
    /\ UNCHANGED <<pc, job_video, volume, job_total_frames, fps, job_chunk_params, collected,
                   all_candidates, frames_selected, golden_frames,
                   analysis_result, result, progress, error>>
    /\ UNCHANGED <<gradeVars, selVars, clsVars, aggVars, schVars, chkVars, fnVars>>

\* the platform ends a worker that runs longer than its timeout=120; the
\* call has no return value
WorkerTimeout(k) ==
    /\ pc = "collect"
    /\ k \in 1..Len(workers)
    /\ workers[k].st \in {"reload", "retry", "open"}
    /\ workers' = [workers EXCEPT ![k].st = "timeout"]
    /\ UNCHANGED <<pc, job_video, volume, job_total_frames, fps, job_chunk_params, collected,
                   all_candidates, frames_selected, golden_frames,
                   analysis_result, result, progress, error>>
    /\ UNCHANGED <<gradeVars, selVars, clsVars, aggVars, schVars, chkVars, fnVars>>

\* the loop over .map() with an empty list taken for a failure
CollectFailsOnEmpty ==
    /\ pc = "collect"
    /\ collected < Len(workers)
    /\ workers[collected + 1].st \in {"done", "timeout"}
    /\ IF workers[collected + 1].st = "done"
          /\ workers[collected + 1].candidates # <<>>
       THEN /\ all_candidates' = all_candidates \o workers[collected + 1].candidates
            /\ collected' = collected + 1
            /\ UNCHANGED <<pc, error>>
       ELSE /\ Fail("FunctionTimeoutError")
            /\ UNCHANGED <<all_candidates, collected>>
    /\ UNCHANGED <<job_video, volume, job_total_frames, fps, job_chunk_params, workers,
                   frames_selected, golden_frames, analysis_result, result,
                   progress>>
    /\ UNCHANGED <<gradeVars, selVars, clsVars, aggVars, schVars, chkVars, fnVars>>

\* the loop over .map() takes the next worker's list, in chunk order; the
\* exception of a worker that timed out is raised here and is not caught
Collect ==
    /\ pc = "collect"
    /\ collected < Len(workers)
    /\ workers[collected + 1].st \in {"done", "timeout"}
    /\ IF workers[collected + 1].st = "done"
       THEN /\ all_candidates' = all_candidates \o workers[collected + 1].candidates
            /\ collected' = collected + 1
            /\ UNCHANGED <<pc, error>>
       ELSE /\ Fail("FunctionTimeoutError")
            /\ UNCHANGED <<all_candidates, collected>>
    /\ UNCHANGED <<job_video, volume, job_total_frames, fps, job_chunk_params, workers,
                   frames_selected, golden_frames, analysis_result, result,
                   progress>>
    /\ UNCHANGED <<gradeVars, selVars, clsVars, aggVars, schVars, chkVars, fnVars>>

\* the sort and the frame selection, not waiting for the workers
SelectFramesEarly ==
    /\ pc = "collect"
    /\ all_candidates' = SortBySharpness(all_candidates)
    /\ \E configured \in BOOLEAN, token_ok \in BOOLEAN :
          IF configured /\ token_ok
          THEN \E scores \in [1..Min2(max_candidates, Len(all_candidates))
                                -> 0..MaxVisibility] :
                  frames_selected' =
                      select_golden_frames_by_coverage(job_video, all_candidates', scores)
          ELSE frames_selected' = select_by_sharpness_only(all_candidates', max_frames)
    /\ progress' = progress \o <<50, 60>>
    /\ pc' = "extract"
    /\ UNCHANGED <<job_video, volume, job_total_frames, fps, job_chunk_params, workers,
                   collected, golden_frames, analysis_result, result, error>>
    /\ UNCHANGED <<gradeVars, selVars, clsVars, aggVars, schVars, chkVars, fnVars>>

\* the sort and the frame selection: by coverage when the visibility
\* classifier is configured and its token request succeeds, else by
\* sharpness only
SelectFrames ==
    /\ pc = "collect"
    /\ collected = Len(workers)
    /\ all_candidates' = SortBySharpness(all_candidates)
    /\ \E configured \in BOOLEAN, token_ok \in BOOLEAN :
          IF configured /\ token_ok
          THEN \E scores \in [1..Min2(max_candidates, Len(all_candidates))
                                -> 0..MaxVisibility] :
                  frames_selected' =
                      select_golden_frames_by_coverage(job_video, all_candidates', scores)
          ELSE frames_selected' = select_by_sharpness_only(all_candidates', max_frames)
    /\ progress' = progress \o <<50, 60>>
    /\ pc' = "extract"
    /\ UNCHANGED <<job_video, volume, job_total_frames, fps, job_chunk_params, workers,
                   collected, golden_frames, analysis_result, result, error>>
    /\ UNCHANGED <<gradeVars, selVars, clsVars, aggVars, schVars, chkVars, fnVars>>

ExtractFrames ==
    /\ pc = "extract"
    /\ golden_frames' = ExtractGoldenFrames(job_video, frames_selected)
    /\ progress' = Append(progress, 70)
    /\ pc' = "nyckel"
    /\ UNCHANGED <<job_video, volume, job_total_frames, fps, job_chunk_params, workers,
                   collected, all_candidates, frames_selected, analysis_result,
                   result, error>>
    /\ UNCHANGED <<gradeVars, selVars, clsVars, aggVars, schVars, chkVars, fnVars>>

\* run_nyckel_analysis with its failure going straight to the upload, the
\* variance-based analysis skipped
NyckelAnalysisNoFallback ==
    /\ pc = "nyckel"
    /\ \E outcome \in {"result", "none", "raises"} :
          /\ outcome = "result" => golden_frames # <<>>
          /\ IF outcome = "result"
             THEN /\ analysis_result' = "nyckel-ml"
                  /\ progress' = Append(progress, 85)
             ELSE /\ analysis_result' = None
                  /\ UNCHANGED progress
    /\ pc' = "upload"
    /\ UNCHANGED <<job_video, volume, job_total_frames, fps, job_chunk_params, workers,
                   collected, all_candidates, frames_selected, golden_frames,
                   result, error>>
    /\ UNCHANGED <<gradeVars, selVars, clsVars, aggVars, schVars, chkVars, fnVars>>

\* run_nyckel_analysis returns a result, returns None (always without
\* golden frames) or raises; the exception is caught
NyckelAnalysis ==
    /\ pc = "nyckel"
    /\ \E outcome \in {"result", "none", "raises"} :
          /\ outcome = "result" => golden_frames # <<>>
          /\ IF outcome = "result"
             THEN /\ analysis_result' = "nyckel-ml"
                  /\ progress' = Append(progress, 85)
                  /\ pc' = "upload"
             ELSE /\ analysis_result' = None
                  /\ pc' = "cv"
                  /\ UNCHANGED progress
    /\ UNCHANGED <<job_video, volume, job_total_frames, fps, job_chunk_params, workers,
                   collected, all_candidates, frames_selected, golden_frames,
                   result, error>>
    /\ UNCHANGED <<gradeVars, selVars, clsVars, aggVars, schVars, chkVars, fnVars>>

\* run_cv_analysis returns None with fewer than 2 frames, else a result or
\* None, or raises; the exception is caught
CvAnalysis ==
    /\ pc = "cv"
    /\ \E outcome \in {"result", "none", "raises"} :
          /\ outcome = "result" => Len(golden_frames) >= 2
          /\ analysis_result' = IF outcome = "result" THEN "cv" ELSE None
    /\ pc' = "upload"
    /\ UNCHANGED <<job_video, volume, job_total_frames, fps, job_chunk_params, workers,
                   collected, all_candidates, frames_selected, golden_frames,
                   result, progress, error>>
    /\ UNCHANGED <<gradeVars, selVars, clsVars, aggVars, schVars, chkVars, fnVars>>

\* upload_golden_frames: an upload that is refused raises out of the job
Upload ==
    /\ pc = "upload"
    /\ \E uploaded \in BOOLEAN :
          /\ ~uploaded => golden_frames # <<>>
          /\ IF uploaded
             THEN /\ result' = <<[success |-> upload_golden_frames(golden_frames).success,
                                  goldenFrames |->
                                      upload_golden_frames(golden_frames).goldenFrames,
                                  analysis |-> analysis_result]>>
                  /\ progress' = Append(progress, 95)
                  /\ pc' = "cleanup"
                  /\ UNCHANGED error
             ELSE /\ Fail("Exception")
                  /\ UNCHANGED <<result, progress>>
    /\ UNCHANGED <<job_video, volume, job_total_frames, fps, job_chunk_params, workers,
                   collected, all_candidates, frames_selected, golden_frames,
                   analysis_result>>
    /\ UNCHANGED <<gradeVars, selVars, clsVars, aggVars, schVars, chkVars, fnVars>>

\* the cleanup and the return without the last progress update
CleanupAndReturnSilent ==
    /\ pc = "cleanup"
    /\ \E removed \in BOOLEAN :
          volume' = IF removed THEN "removed" ELSE volume
    /\ UNCHANGED progress
    /\ pc' = "returned"
    /\ UNCHANGED <<job_video, job_total_frames, fps, job_chunk_params, workers, collected,
                   all_candidates, frames_selected, golden_frames,
                   analysis_result, result, error>>
    /\ UNCHANGED <<gradeVars, selVars, clsVars, aggVars, schVars, chkVars, fnVars>>

\* shutil.rmtree of the volume directory, its failure swallowed; then the
\* last progress update and the return
CleanupAndReturn ==
    /\ pc = "cleanup"
    /\ \E removed \in BOOLEAN :
          volume' = IF removed THEN "removed" ELSE volume
    /\ progress' = Append(progress, 100)
    /\ pc' = "returned"
    /\ UNCHANGED <<job_video, job_total_frames, fps, job_chunk_params, workers, collected,
                   all_candidates, frames_selected, golden_frames,
                   analysis_result, result, error>>
    /\ UNCHANGED <<gradeVars, selVars, clsVars, aggVars, schVars, chkVars, fnVars>>

Next ==
    \/ Download
    \/ CommitAndDispatch
    \/ \E k \in 1..Len(workers) : WorkerReload(k)
    \/ \E k \in 1..Len(workers) : WorkerRetry(k)
    \/ \E k \in 1..Len(workers) : WorkerAnalyze(k)
    \/ \E k \in 1..Len(workers) : WorkerTimeout(k)
    \/ Collect
    \/ SelectFrames
    \/ ExtractFrames
    \/ NyckelAnalysis
    \/ CvAnalysis
    \/ Upload
    \/ CleanupAndReturn

Spec == Init /\ [][Next]_vars

(***************************************************************************)
(* The fan-in of analyze_video and analyze_video_gpu: the workers' lists   *)
(* are concatenated, sorted by sharpness and handed to the selector.  The  *)
(* same is computed for the lists taken in the order fan_perm.             *)
(***************************************************************************)
FanFrame == [gray : {0, MaxGray}, detail : 1..MaxSharp]
\* the frames the workers of analyze_video sample vary, the others are blank
FanVideos ==
    UNION {{[i \in 1..n |->
                IF (i - 1) % frame_sample_rate = 0
                THEN sampled[((i - 1) \div frame_sample_rate) + 1]
                ELSE BlankFrame] :
            sampled \in [1..(((n - 1) \div frame_sample_rate) + 1) -> FanFrame]} :
           n \in 1..MaxFanFrames}

\* the lists in the order perm
Permuted(lists, perm) == [k \in 1..Len(lists) |-> lists[perm[k]]]

InitFanIn ==
    /\ GradeIdle /\ SelIdle /\ ClsIdle /\ AggIdle /\ SchIdle /\ ChkIdle /\ JobIdle
    /\ CovIdle /\ ProgIdle /\ CvIdle
    /\ fan_video \in FanVideos
    /\ fan_results = <<>>
    /\ fan_perm = <<>>
    /\ fan_all = <<>>
    /\ fan_selected = <<>>
    /\ fan_all_perm = <<>>
    /\ fan_selected_perm = <<>>
    /\ fan_pc = "input"

\* analyze_video: extend, sort, select_by_sharpness_only
FanInCpu ==
    /\ fan_pc = "input"
    /\ LET chunks == CpuChunkParams(Len(fan_video))
           results == [k \in 1..Len(chunks) |->
                           analyze_frame_chunk(fan_video, chunks[k].start_frame,
                               chunks[k].end_frame, chunks[k].sample_rate)]
       IN  \E perm \in Permutations(1..Len(chunks)) :
              /\ fan_results' = results
              /\ fan_perm' = perm
              /\ fan_all' = SortBySharpness(Extend(results, 1))
              /\ fan_selected' = select_by_sharpness_only(fan_all', max_frames)
              /\ fan_all_perm' = SortBySharpness(Extend(Permuted(results, perm), 1))
              /\ fan_selected_perm' =
                     select_by_sharpness_only(fan_all_perm', max_frames)
    /\ fan_pc' = "analyze_video"
    /\ UNCHANGED <<fan_video, gradeVars, selVars, clsVars, aggVars, schVars,
                   chkVars, jobVars, covVars, progVars, cvVars>>

\* analyze_video_gpu: extend, sort, the selection loop written in line
FanInGpu ==
    /\ fan_pc = "input"
    /\ LET chunks == GpuChunkParams(Len(fan_video))
           results == [k \in 1..Len(chunks) |->
                           analyze_frame_chunk_gpu(fan_video, chunks[k].start_frame,
                               chunks[k].end_frame, TRUE)]
       IN  \E perm \in Permutations(1..Len(chunks)) :
              /\ fan_results' = results
              /\ fan_perm' = perm
              /\ fan_all' = SortBySharpness(Extend(results, 1))
              /\ fan_selected' = gpu_inline_select(fan_all')
              /\ fan_all_perm' = SortBySharpness(Extend(Permuted(results, perm), 1))
              /\ fan_selected_perm' = gpu_inline_select(fan_all_perm')
    /\ fan_pc' = "analyze_video_gpu"
    /\ UNCHANGED <<fan_video, gradeVars, selVars, clsVars, aggVars, schVars,
                   chkVars, jobVars, covVars, progVars, cvVars>>

NextFanIn ==
    \/ FanInCpu
    \/ FanInGpu

SpecFanIn == InitFanIn /\ [][NextFanIn]_vars

(***************************************************************************)
(* analyze_frame_chunk on its own: the workers of one job from the moment  *)
(* .map() has started them, each running to its return.  Every worker      *)
(* that can take a step eventually takes one.                              *)
(***************************************************************************)
InitWorker ==
    /\ GradeIdle /\ SelIdle /\ ClsIdle /\ AggIdle /\ SchIdle /\ ChkIdle /\ FnIdle
    /\ pc = "collect"
    /\ job_video \in {v \in JobVideos : Len(v) >= 1}
    /\ volume = "committed"
    /\ job_total_frames = Len(job_video)
    /\ fps = VideoFps
    /\ job_chunk_params = CpuChunkParams(job_total_frames)
    /\ workers = [k \in 1..Len(job_chunk_params) |->
                     [st |-> "reload", attempt |-> 0, exists |-> FALSE,
                      candidates |-> <<>>]]
    /\ collected = 0
    /\ all_candidates = <<>>
    /\ frames_selected = <<>>
    /\ golden_frames = <<>>
    /\ analysis_result = None
    /\ result = <<>>
    /\ progress = <<5, 15, 25>>
    /\ error = None

WorkerStep(k) == WorkerReload(k) \/ WorkerRetry(k) \/ WorkerAnalyze(k)

\* the most workers a video of the job model is split over
MaxJobWorkers ==
    NumWorkers(MaxJobFrames \div frame_sample_rate, min_frames_per_chunk, max_workers)

NextWorker ==
    \/ \E k \in 1..Len(workers) : WorkerReload(k)
    \/ \E k \in 1..Len(workers) : WorkerRetry(k)
    \/ \E k \in 1..Len(workers) : WorkerAnalyze(k)

SpecWorker ==
    /\ InitWorker
    /\ [][NextWorker]_vars
    /\ \A k \in 1..MaxJobWorkers : WF_vars(WorkerStep(k))

(***************************************************************************)
(* The frame selection of analyze_video, one action per branch: the        *)
(* visibility classifier not configured, its token request raising, every  *)
(* visibility call failing, and the calls answering.  The candidates are   *)
(* the sampled frames of a video that is sharpest at one frame and less    *)
(* sharp the further from it.                                              *)
(***************************************************************************)
\* n stable sampled frames, sharpest at the p-th, sorted as analyze_video
\* sorts them
PeakList(n, p) ==
    SortBySharpness([i \in 1..n |->
        [frame_number |-> frame_sample_rate * (i - 1),
         sharpness |-> MaxCovCands - Abs(i - p),
         motion |-> 0]])

CoverageLists == {PeakList(n, p) : n \in 0..MaxCovCands, p \in 1..MaxCovCands}

\* a video in which every frame of the list can be read
ReadableVideo(cands) == [i \in 1..(frame_sample_rate * Len(cands)) |-> BlankFrame]

\* the scores when every call of classify_region_visibility has failed:
\* no region visible, confidence 0.0
NoVisibility(cands) == [i \in 1..Min2(max_candidates, Len(cands)) |-> 0]

\* scores of a classifier that answers
AnsweredScores(cands) ==
    {[i \in 1..Min2(max_candidates, Len(cands)) |-> (i + shift) % (MaxVisibility + 1)] :
        shift \in 0..MaxVisibility}

InitCoverage ==
    /\ GradeIdle /\ SelIdle /\ ClsIdle /\ AggIdle /\ SchIdle /\ ChkIdle /\ JobIdle
    /\ FanIdle /\ ProgIdle /\ CvIdle
    /\ cov_candidates \in CoverageLists
    /\ cov_selected = <<>>
    /\ cov_default = <<>>
    /\ cov_pc = "input"

\* the else branch: the classifier is not configured
SelectNotConfigured ==
    /\ cov_pc = "input"
    /\ cov_selected' = select_by_sharpness_only(cov_candidates, max_frames)
    /\ cov_default' = select_by_sharpness_only(cov_candidates, max_frames)
    /\ cov_pc' = "not_configured"
    /\ UNCHANGED <<cov_candidates, gradeVars, selVars, clsVars, aggVars, schVars,
                   chkVars, jobVars, fanVars, progVars, cvVars>>

\* get_nyckel_token raises: the except branch
SelectTokenRaises ==
    /\ cov_pc = "input"
    /\ cov_selected' = select_by_sharpness_only(cov_candidates, max_frames)
    /\ cov_default' = select_by_sharpness_only(cov_candidates, max_frames)
    /\ cov_pc' = "token_raises"
    /\ UNCHANGED <<cov_candidates, gradeVars, selVars, clsVars, aggVars, schVars,
                   chkVars, jobVars, fanVars, progVars, cvVars>>

\* the token is granted and every visibility call fails
SelectAllCallsFail ==
    /\ cov_pc = "input"
    /\ cov_selected' = select_golden_frames_by_coverage(
                           ReadableVideo(cov_candidates), cov_candidates,
                           NoVisibility(cov_candidates))
    /\ cov_default' = select_by_sharpness_only(cov_candidates, max_frames)
    /\ cov_pc' = "all_calls_fail"
    /\ UNCHANGED <<cov_candidates, gradeVars, selVars, clsVars, aggVars, schVars,
                   chkVars, jobVars, fanVars, progVars, cvVars>>

\* the token is granted and the visibility calls answer
SelectByCoverage ==
    /\ cov_pc = "input"
    /\ \E scores \in AnsweredScores(cov_candidates) :
          cov_selected' = select_golden_frames_by_coverage(
                              ReadableVideo(cov_candidates), cov_candidates, scores)
    /\ cov_default' = select_by_sharpness_only(cov_candidates, max_frames)
    /\ cov_pc' = "coverage"
    /\ UNCHANGED <<cov_candidates, gradeVars, selVars, clsVars, aggVars, schVars,
                   chkVars, jobVars, fanVars, progVars, cvVars>>

NextCoverage ==
    \/ SelectNotConfigured
    \/ SelectTokenRaises
    \/ SelectAllCallsFail
    \/ SelectByCoverage

SpecCoverage == InitCoverage /\ [][NextCoverage]_vars

\* ---- update_progress ----

\* the percentages analyze_video reports
ProgressSteps == {5, 15, 25, 50, 60, 70, 85, 95, 100}

\* what requests.patch does: it returns a response with a status code, or it
\* raises (the 5 s timeout, no connection)
ProgressStatuses == {"200", "204", "400", "401", "404", "500", "503"}

ProgressRaises == {"timeout", "connection_error"}

ProgressResponses == ProgressStatuses \cup ProgressRaises

\* update_progress with the exception of requests.patch leaving the function
update_progress_unguarded(percentage, response) ==
    IF response \in ProgressRaises
    THEN [raised |-> TRUE, value |-> None, printed |-> "none"]
    ELSE [raised |-> FALSE, value |-> None,
          printed |-> IF response \in {"200", "204"} THEN "progress" ELSE "failed"]

\* update_progress: how the call ends (it has no return statement) and the
\* line it prints
update_progress(percentage, response) ==
    IF response \in ProgressRaises
    THEN [raised |-> FALSE, value |-> None, printed |-> "error"]
    ELSE [raised |-> FALSE, value |-> None,
          printed |-> IF response \in {"200", "204"} THEN "progress" ELSE "failed"]

InitProgress ==
    /\ GradeIdle /\ SelIdle /\ ClsIdle /\ AggIdle /\ SchIdle /\ ChkIdle /\ JobIdle
    /\ FanIdle /\ CovIdle /\ CvIdle
    /\ prog_percentage \in ProgressSteps
    /\ prog_response \in ProgressResponses
    /\ prog_row \in {0} \cup {p \in ProgressSteps : p < prog_percentage}
    /\ prog_outcome = <<>>
    /\ prog_pc = "input"

\* the request is answered: the row is updated on 200 and 204 only
UpdateProgressAnswered ==
    /\ prog_pc = "input"
    /\ prog_response \in ProgressStatuses
    /\ prog_outcome' = <<update_progress(prog_percentage, prog_response)>>
    /\ prog_row' = IF prog_response \in {"200", "204"} THEN prog_percentage ELSE prog_row
    /\ prog_pc' = "called"
    /\ UNCHANGED <<prog_percentage, prog_response>>
    /\ UNCHANGED <<gradeVars, selVars, clsVars, aggVars, schVars, chkVars, jobVars,
                   fanVars, covVars, cvVars>>

\* the request raises: the row may or may not have been updated by then
UpdateProgressRaises ==
    /\ prog_pc = "input"
    /\ prog_response \in ProgressRaises
    /\ prog_outcome' = <<update_progress(prog_percentage, prog_response)>>
    /\ prog_row' \in (IF prog_response = "timeout"
                      THEN {prog_row, prog_percentage} ELSE {prog_row})
    /\ prog_pc' = "called"
    /\ UNCHANGED <<prog_percentage, prog_response>>
    /\ UNCHANGED <<gradeVars, selVars, clsVars, aggVars, schVars, chkVars, jobVars,
                   fanVars, covVars, cvVars>>

NextProgress ==
    \/ UpdateProgressAnswered
    \/ UpdateProgressRaises

SpecProgress == InitProgress /\ [][NextProgress]_vars

\* ---- frame alignment (align_frames, run_cv_analysis) ----

\* (height, width) of an image
Shapes == {<<4, 6>>, <<6, 4>>}

\* an image: which golden frame it shows, its shape, and whether it went
\* through cv2.warpPerspective
Image == [id : 1..MaxAlignFrames, shape : Shapes, warped : BOOLEAN]

\* per frame: len(desc) (0 for desc None), len(matches), and whether
\* findHomography returns a matrix
AlignFacts ==
    {f \in [desc : {0, 3, 5}, matches : {0, 3, 4}, homography : BOOLEAN] :
        /\ f.matches <= f.desc
        /\ f.homography => f.matches >= 4}

\* a frame that cannot be aligned is replaced by the reference
AlignOneOrReference(reference, frame, ref_desc, facts, min_desc) ==
    IF facts.desc = 0 \/ ref_desc = 0 \/ facts.desc < min_desc
       \/ facts.matches < 4 \/ ~facts.homography
    THEN reference
    ELSE [id |-> frame.id, shape |-> reference.shape, warped |-> TRUE]

\* one iteration of the alignment loop: the frame warped to the size of the
\* reference, or the frame itself; min_desc is the `len(desc) < 4` test of
\* run_cv_analysis (0 in align_frames, which has none)
AlignOne(reference, frame, ref_desc, facts, min_desc) ==
    IF facts.desc = 0 \/ ref_desc = 0 \/ facts.desc < min_desc THEN frame
    ELSE IF facts.matches < 4 THEN frame
    ELSE IF facts.homography
         THEN [id |-> frame.id, shape |-> reference.shape, warped |-> TRUE]
         ELSE frame

\* align_frames of glint_analyzer.py
align_frames(frames, ref_desc, facts) ==
    IF Len(frames) < 2 THEN frames
    ELSE [i \in 1..Len(frames) |->
             IF i = 1 THEN frames[1]
             ELSE AlignOne(frames[1], frames[i], ref_desc, facts[i], 0)]

\* the alignment loop of run_cv_analysis
cv_analysis_align(frames, ref_desc, facts) ==
    [i \in 1..Len(frames) |->
        IF i = 1 THEN frames[1]
        ELSE AlignOne(frames[1], frames[i], ref_desc, facts[i], 4)]

\* the frames are distinct golden frames, none warped yet; matches never
\* outnumber the descriptors of the reference
InitAlign ==
    /\ GradeIdle /\ SelIdle /\ ClsIdle /\ AggIdle /\ SchIdle /\ ChkIdle /\ JobIdle
    /\ FanIdle /\ CovIdle /\ ProgIdle /\ FusIdle /\ ShpIdle /\ BoxIdle
    /\ \E n \in 0..MaxAlignFrames :
          /\ aln_frames \in {[i \in 1..n |-> [id |-> i, shape |-> sh[i], warped |-> FALSE]] :
                                sh \in [1..n -> Shapes]}
          /\ aln_facts \in [1..n -> AlignFacts]
    /\ aln_ref_desc \in {0, 5}
    /\ \A i \in 1..Len(aln_facts) : aln_facts[i].matches <= aln_ref_desc
    /\ aln_aligned = <<>>
    /\ aln_pc = "input"

AlignFrames ==
    /\ aln_pc = "input"
    /\ aln_aligned' = align_frames(aln_frames, aln_ref_desc, aln_facts)
    /\ aln_pc' = "align_frames"
    /\ UNCHANGED <<aln_frames, aln_ref_desc, aln_facts>>
    /\ UNCHANGED <<gradeVars, selVars, clsVars, aggVars, schVars, chkVars, jobVars,
                   fanVars, covVars, progVars, fusVars, shpVars, boxVars>>

\* run_cv_analysis reaches its alignment with at least 2 frames of one
\* video, all cropped to the same box
AlignInCvAnalysis ==
    /\ aln_pc = "input"
    /\ Len(aln_frames) >= 2
    /\ \A i \in 1..Len(aln_frames) : aln_frames[i].shape = aln_frames[1].shape
    /\ aln_aligned' = cv_analysis_align(aln_frames, aln_ref_desc, aln_facts)
    /\ aln_pc' = "run_cv_analysis"
    /\ UNCHANGED <<aln_frames, aln_ref_desc, aln_facts>>
    /\ UNCHANGED <<gradeVars, selVars, clsVars, aggVars, schVars, chkVars, jobVars,
                   fanVars, covVars, progVars, fusVars, shpVars, boxVars>>

NextAlign ==
    \/ AlignFrames
    \/ AlignInCvAnalysis

SpecAlign == InitAlign /\ [][NextAlign]_vars

\* ---- defect fusion (create_defect_mask, run_cv_analysis, ----
\* ---- run_glint_analysis_gpu)                              ----

\* a pixel: its gray value and its normalised single-frame edge/texture
\* score (frame_defect_score)
FusePixel == [gray : 0..1, score : 0..1]

\* a row of values, flat but for at most one pixel
SpotRows == {[p \in 1..FusePixels |-> IF p = q THEN 1 ELSE 0] : q \in 0..FusePixels}

\* a frame is one row of pixels, with at most one glint and at most one edge
FuseImage ==
    {[p \in 1..FusePixels |-> [gray |-> g[p], score |-> e[p]]] :
        g \in SpotRows, e \in SpotRows}

SumSeq(f) == SumOver(DOMAIN f, f)

MaxSeq(f) == CHOOSE m \in Range(f) : \A x \in Range(f) : x <= m

\* np.var(stack, axis=0), times n * n to stay in the integers
VarianceMap(frames) ==
    LET n == Len(frames)
    IN  [p \in 1..FusePixels |->
            n * SumSeq([i \in 1..n |-> frames[i][p].gray * frames[i][p].gray])
              - SumSeq([i \in 1..n |-> frames[i][p].gray])
                  * SumSeq([i \in 1..n |-> frames[i][p].gray])]

\* the maximum absolute difference between any two frames
MaxDifferenceMap(frames) ==
    [p \in 1..FusePixels |->
        MaxSeq([k \in 1..(Len(frames) * Len(frames)) |->
                   Abs(frames[((k - 1) \div Len(frames)) + 1][p].gray
                         - frames[((k - 1) % Len(frames)) + 1][p].gray)])]

\* np.maximum.reduce(frame_defect_maps)
CompositeMap(frames) ==
    [p \in 1..FusePixels |-> MaxSeq([i \in 1..Len(frames) |-> frames[i][p].score])]

\* combined > mean + sigma * std, with sigma * sigma = num / den: the pixel
\* is above the mean and its squared distance to the mean above
\* sigma * sigma times the variance
AboveThreshold(combined, p, num, den) ==
    LET n == Len(combined)
        total == SumSeq(combined)
        squares == SumSeq([q \in 1..n |-> combined[q] * combined[q]])
        d == n * combined[p] - total
    IN  d > 0 /\ den * d * d > num * (n * squares - total * total)

\* cv2.erode and cv2.dilate along the row; offsets are the kernel's columns
\* relative to its anchor, and pixels outside the row do not count
Erode(mask, offsets) ==
    [p \in 1..Len(mask) |->
        \A o \in offsets : (p + o) \in 1..Len(mask) => mask[p + o]]

Dilate(mask, offsets) ==
    [p \in 1..Len(mask) |->
        \E o \in offsets : (p + o) \in 1..Len(mask) /\ mask[p + o]]

\* np.ones((3, 3)) and np.ones((2, 2)), anchored at their centre
Kernel3 == {-1, 0, 1}

Kernel2 == {-1, 0}

\* MORPH_OPEN, MORPH_CLOSE and two dilations, as create_defect_mask and
\* run_cv_analysis apply them
CleanMask(mask) ==
    LET opened == Dilate(Erode(mask, Kernel3), Kernel3)
        closed == Erode(Dilate(opened, Kernel3), Kernel3)
    IN  Dilate(Dilate(closed, Kernel3), Kernel3)

\* variance_map / variance_map.max() + max_diff_map / max_diff_map.max(),
\* brought to the common denominator; with a zero maximum every pixel is
\* NaN and no comparison with the threshold is true
create_defect_mask(variance_map, max_diff_map) ==
    LET var_max == MaxSeq(variance_map)
        diff_max == MaxSeq(max_diff_map)
        combined == [p \in 1..FusePixels |->
                        variance_map[p] * diff_max + max_diff_map[p] * var_max]
    IN  IF var_max = 0 \/ diff_max = 0
        THEN [nan |-> TRUE, mask |-> CleanMask([p \in 1..FusePixels |-> FALSE])]
        ELSE [nan |-> FALSE,
              mask |-> CleanMask([p \in 1..FusePixels |->
                                     AboveThreshold(combined, p, 4, 1)])]

\* the mask run_glint_analysis_gpu thresholds from a combined defect map
GpuMask(combined) ==
    LET mask == [p \in 1..FusePixels |-> AboveThreshold(combined, p, 9, 100)]
    IN  Erode(Dilate(mask, Kernel2), Kernel2)

\* combined_defect_map * 0.75 + safe_normalize(variance_map) * 0.25, brought
\* to the common denominator
GpuFuse(frames) ==
    LET variance_map == VarianceMap(frames)
        var_max == MaxSeq(variance_map)
        composite == CompositeMap(frames)
    IN  [nan |-> FALSE,
         mask |-> GpuMask([p \in 1..FusePixels |->
                              IF var_max > 0
                              THEN 3 * composite[p] * var_max + variance_map[p]
                              ELSE 3 * composite[p]])]

\* two frames, or more with the later ones alike
InitFuse ==
    /\ GradeIdle /\ SelIdle /\ ClsIdle /\ AggIdle /\ SchIdle /\ ChkIdle /\ JobIdle
    /\ FanIdle /\ CovIdle /\ ProgIdle /\ AlnIdle /\ ShpIdle /\ BoxIdle
    /\ \E n \in 2..MaxFuseFrames, first \in FuseImage, other \in FuseImage :
          fus_frames = [i \in 1..n |-> IF i = 1 THEN first ELSE other]
    /\ fus_variance = <<>>
    /\ fus_nan = FALSE
    /\ fus_mask = <<>>
    /\ fus_pc = "input"

\* compute_variance_map, compute_max_difference_map and create_defect_mask
\* of glint_analyzer.py
FuseGlintAnalyzer ==
    /\ fus_pc = "input"
    /\ fus_variance' = VarianceMap(fus_frames)
    /\ LET made == create_defect_mask(fus_variance', MaxDifferenceMap(fus_frames))
       IN  fus_nan' = made.nan /\ fus_mask' = made.mask
    /\ fus_pc' = "create_defect_mask"
    /\ UNCHANGED fus_frames
    /\ UNCHANGED <<gradeVars, selVars, clsVars, aggVars, schVars, chkVars, jobVars,
                   fanVars, covVars, progVars, alnVars, shpVars, boxVars>>

\* the same computation, inline in run_cv_analysis
FuseCvAnalysis ==
    /\ fus_pc = "input"
    /\ fus_variance' = VarianceMap(fus_frames)
    /\ LET made == create_defect_mask(fus_variance', MaxDifferenceMap(fus_frames))
       IN  fus_nan' = made.nan /\ fus_mask' = made.mask
    /\ fus_pc' = "run_cv_analysis"
    /\ UNCHANGED fus_frames
    /\ UNCHANGED <<gradeVars, selVars, clsVars, aggVars, schVars, chkVars, jobVars,
                   fanVars, covVars, progVars, alnVars, shpVars, boxVars>>

\* run_glint_analysis_gpu, its frames all of one shape
FuseGpu ==
    /\ fus_pc = "input"
    /\ fus_variance' = VarianceMap(fus_frames)
    /\ fus_nan' = GpuFuse(fus_frames).nan
    /\ fus_mask' = GpuFuse(fus_frames).mask
    /\ fus_pc' = "run_glint_analysis_gpu"
    /\ UNCHANGED fus_frames
    /\ UNCHANGED <<gradeVars, selVars, clsVars, aggVars, schVars, chkVars, jobVars,
                   fanVars, covVars, progVars, alnVars, shpVars, boxVars>>

NextFuse ==
    \/ FuseGlintAnalyzer
    \/ FuseCvAnalysis
    \/ FuseGpu

SpecFuse == InitFuse /\ [][NextFuse]_vars

\* ---- shapes through the analysis (run_glint_analysis_gpu, ----
\* ---- run_cv_analysis)                                     ----

\* (height, width) of the frames of the video
FrameShape == <<6, 8>>

\* (target_height, target_width) of a warped frame: the size of the
\* quadrilateral that was found, which can also be the size of the frame
WarpShapes == {<<6, 8>>, <<5, 4>>, <<4, 3>>}

\* (h, w) of the box the frames are cropped to
CropShapes == {<<6, 8>>, <<5, 6>>}

\* numpy arithmetic on two maps raises ValueError unless they have the same
\* shape (no dimension here is 1, so nothing broadcasts)
SameShape(a, b) == a = b

\* run_glint_analysis_gpu from the loaded frames to the mask: out.raised
\* when the blend of the fused map with the variance map raises
run_glint_analysis_gpu(frames, warp) ==
    LET warped_frames == [i \in 1..Len(frames) |->
                             IF warp[i] # <<>> THEN warp[i] ELSE frames[i]]
        warp_success_count == Cardinality({i \in 1..Len(frames) : warp[i] # <<>>})
        to_analyze == IF warp_success_count > 0 THEN warped_frames ELSE frames
        reference_shape == to_analyze[1]
        same_size == SelectSeq(to_analyze, LAMBDA f : f = reference_shape)
        fused == same_size[1]
        variance == IF Len(frames) >= 2 THEN frames[1] ELSE same_size[Len(same_size)]
    IN  IF Len(frames) >= 2 /\ ~SameShape(fused, variance)
        THEN [raised |-> TRUE, reference |-> <<>>, fused |-> fused,
              variance |-> variance, mask |-> <<>>]
        ELSE [raised |-> FALSE, reference |-> frames[1], fused |-> fused,
              variance |-> variance, mask |-> fused]

\* run_cv_analysis from the loaded frames to the mask: every frame is
\* cropped to the box found in the first, a frame the alignment warps gets
\* the size of the reference, and the maps are computed from the stack
cv_analysis_shapes(frames, bbox, homography) ==
    LET cropped == [i \in 1..Len(frames) |-> IF bbox # <<>> THEN bbox ELSE frames[i]]
        reference == cropped[1]
        aligned == [i \in 1..Len(frames) |->
                       IF i > 1 /\ homography[i] THEN reference ELSE cropped[i]]
    IN  IF \E i \in 1..Len(aligned) : ~SameShape(aligned[i], aligned[1])
        THEN [raised |-> TRUE, reference |-> reference, fused |-> <<>>,
              variance |-> <<>>, mask |-> <<>>]
        ELSE [raised |-> FALSE, reference |-> reference, fused |-> aligned[1],
              variance |-> aligned[1], mask |-> aligned[1]]

\* the golden frames of one video all have the shape of its frames
InitShape ==
    /\ GradeIdle /\ SelIdle /\ ClsIdle /\ AggIdle /\ SchIdle /\ ChkIdle /\ JobIdle
    /\ FanIdle /\ CovIdle /\ ProgIdle /\ AlnIdle /\ FusIdle /\ BoxIdle
    /\ \E n \in 1..MaxShapeFrames :
          /\ shp_frames = [i \in 1..n |-> FrameShape]
          /\ shp_warp \in [1..n -> {<<>>} \cup WarpShapes]
          /\ shp_homography \in [1..n -> BOOLEAN]
    /\ shp_bbox \in {<<>>} \cup CropShapes
    /\ shp_out = <<>>
    /\ shp_pc = "input"

RunGlintAnalysisGpu ==
    /\ shp_pc = "input"
    /\ shp_out' = <<run_glint_analysis_gpu(shp_frames, shp_warp)>>
    /\ shp_pc' = "run_glint_analysis_gpu"
    /\ UNCHANGED <<shp_frames, shp_warp, shp_bbox, shp_homography>>
    /\ UNCHANGED <<gradeVars, selVars, clsVars, aggVars, schVars, chkVars, jobVars,
                   fanVars, covVars, progVars, alnVars, fusVars, boxVars>>

\* run_cv_analysis returns None before its analysis with fewer than 2 frames
RunCvAnalysis ==
    /\ shp_pc = "input"
    /\ Len(shp_frames) >= 2
    /\ shp_out' = <<cv_analysis_shapes(shp_frames, shp_bbox, shp_homography)>>
    /\ shp_pc' = "run_cv_analysis"
    /\ UNCHANGED <<shp_frames, shp_warp, shp_bbox, shp_homography>>
    /\ UNCHANGED <<gradeVars, selVars, clsVars, aggVars, schVars, chkVars, jobVars,
                   fanVars, covVars, progVars, alnVars, fusVars, boxVars>>

NextShape ==
    \/ RunGlintAnalysisGpu
    \/ RunCvAnalysis

SpecShape == InitShape /\ [][NextShape]_vars

\* ---- detect_comic_boundaries ----

\* the bounding rectangles cv2.boundingRect can give inside a frame
BoundingRects(frame_h, frame_w) ==
    {[x |-> x, y |-> y, w |-> w, h |-> h] :
        x \in 0..(frame_w - 1), y \in 0..(frame_h - 1), w \in 1..frame_w, h \in 1..frame_h}

\* int(w * 0.05)
Padding(size) == size \div 20

\* the padded box without the clipping to the frame
detect_comic_boundaries_unclipped(frame, rect) ==
    IF rect = <<>> THEN <<>>
    ELSE IF 10 * rect.w * rect.h < 3 * frame[2] * frame[1] THEN <<>>
    ELSE <<[x |-> rect.x - Padding(rect.w),
            y |-> rect.y - Padding(rect.h),
            w |-> rect.w + 2 * Padding(rect.w),
            h |-> rect.h + 2 * Padding(rect.h)]>>

\* detect_comic_boundaries from the bounding rectangle of the largest
\* contour on; frame is (frame_h, frame_w), rect is <<>> without contours;
\* the result is <<>> for None, else the one box
detect_comic_boundaries(frame, rect) ==
    IF rect = <<>> THEN <<>>
    ELSE IF 10 * rect.w * rect.h < 3 * frame[2] * frame[1] THEN <<>>
    ELSE LET padding_x == Padding(rect.w)
             padding_y == Padding(rect.h)
             x == Max2(0, rect.x - padding_x)
             y == Max2(0, rect.y - padding_y)
         IN  <<[x |-> x,
                y |-> y,
                w |-> Min2(frame[2] - x, rect.w + 2 * padding_x),
                h |-> Min2(frame[1] - y, rect.h + 2 * padding_y)]>>

InitBox ==
    /\ GradeIdle /\ SelIdle /\ ClsIdle /\ AggIdle /\ SchIdle /\ ChkIdle /\ JobIdle
    /\ FanIdle /\ CovIdle /\ ProgIdle /\ AlnIdle /\ FusIdle /\ ShpIdle
    /\ box_frame = <<BoxFrameHeight, BoxFrameWidth>>
    /\ box_rect \in {<<>>} \cup
          {r \in BoundingRects(BoxFrameHeight, BoxFrameWidth) :
              r.x + r.w <= BoxFrameWidth /\ r.y + r.h <= BoxFrameHeight}
    /\ box_result = <<>>
    /\ box_pc = "input"

DetectComicBoundaries ==
    /\ box_pc = "input"
    /\ box_result' = detect_comic_boundaries(box_frame, box_rect)
    /\ box_pc' = "returned"
    /\ UNCHANGED <<box_frame, box_rect>>
    /\ UNCHANGED <<gradeVars, selVars, clsVars, aggVars, schVars, chkVars, jobVars,
                   fanVars, covVars, progVars, alnVars, fusVars, shpVars>>

NextBox == DetectComicBoundaries

SpecBox == InitBox /\ [][NextBox]_vars

InitGrade ==
    /\ SelIdle /\ ClsIdle /\ AggIdle /\ SchIdle /\ ChkIdle /\ JobIdle /\ FnIdle
    /\ grade_in \in (0 - MaxGradeBelow)..MaxGradeIn
    /\ grade_out = None
    /\ grade_twice = None
    /\ grade_pc = "input"

\* one call of round_to_cgc_grade on the raw grade
Quantize ==
    /\ grade_pc = "input"
    /\ grade_out' = round_to_cgc_grade(grade_in)
    /\ grade_pc' = "quantized"
    /\ UNCHANGED <<grade_in, grade_twice, selVars, clsVars, aggVars, schVars, chkVars, jobVars, fnVars>>

\* a second call, on the value the first call returned
Requantize ==
    /\ grade_pc = "quantized"
    /\ grade_twice' = round_to_cgc_grade(grade_out)
    /\ grade_pc' = "requantized"
    /\ UNCHANGED <<grade_in, grade_out, selVars, clsVars, aggVars, schVars, chkVars, jobVars, fnVars>>

NextGrade ==
    \/ Quantize
    \/ Requantize

SpecGrade == InitGrade /\ [][NextGrade]_vars

----------------------------------------------------------------------------
(***************************************************************************)
(* Claims about the grade quantizer.                                       *)
(***************************************************************************)
GradeQuantized == grade_pc \in {"quantized", "requantized"}

\* C4: round_to_cgc_grade clamps its input to [0.5, 10.0] and returns the
\* greatest grade point of VALID_CGC_GRADES that is <= the clamped input: the
\* result is a member of the list, never exceeds an input >= 0.5, 10.1 maps to
\* 10.0 and -1 maps to 0.5.
C4_QuantizerGreatestAtOrBelow ==
    GradeQuantized =>
        /\ grade_out \in ValidGradeSet
        /\ grade_out <= ClampGrade(grade_in)
        /\ \A v \in ValidGradeSet : v <= ClampGrade(grade_in) => v <= grade_out
        /\ (grade_in >= 50 => grade_out <= grade_in)
        /\ (grade_in = 1010 => grade_out = 1000)
        /\ (grade_in = -100 => grade_out = 50)

C4_Witness ==
    /\ grade_pc = "quantized"
    /\ grade_in = 1010
    /\ grade_out = 1000

\* C5: the quantizer is idempotent: a value of the grade-point list is
\* returned unchanged, and quantizing the result of a quantization returns it
\* unchanged.
C5_QuantizerIdempotent ==
    /\ (GradeQuantized /\ grade_in \in ValidGradeSet => grade_out = grade_in)
    /\ (grade_pc = "requantized" => grade_twice = grade_out)

C5_Witness ==
    /\ grade_pc = "requantized"
    /\ grade_in = 980
    /\ grade_twice = 980

\* C6 as stated: every value in (9.6, 9.8], 9.8 included, quantizes to 9.6.
C6_HalfOpenAbove ==
    GradeQuantized /\ grade_in > 960 /\ grade_in <= 980 => grade_out = 960

\* C6 as amended: every value greater than 9.6 and less than 9.8 quantizes
\* to 9.6, and 9.8 itself quantizes to 9.8.
C6_OpenInterval ==
    GradeQuantized =>
        /\ (grade_in > 960 /\ grade_in < 980 => grade_out = 960)
        /\ (grade_in = 980 => grade_out = 980)

C6_Witness ==
    /\ grade_pc = "quantized"
    /\ grade_in = 970
    /\ grade_out = 960

(***************************************************************************)
(* Claims about the golden frame selectors.                                *)
(***************************************************************************)
SelectorRan == sel_pc \notin {"idle", "input"}

NoTwoWithin(sel, gap) ==
    \A i, j \in 1..Len(sel) :
        i # j => Abs(sel[i].frame_number - sel[j].frame_number) >= gap

\* C1: for every candidate list, desired count K and minimum gap G, the
\* selector returns a list with no two frames nearer than G, with at most K
\* frames, and with no more frames than there are candidates.
C1_SelectorBounds ==
    SelectorRan =>
        /\ NoTwoWithin(selected, min_frame_gap)
        /\ Len(selected) <= num_frames
        /\ Len(selected) <= Len(candidates)

\* what the selectors do keep for every K, and the count bound for K >= 1
C1_SelectorBoundsPositiveCount ==
    SelectorRan =>
        /\ NoTwoWithin(selected, min_frame_gap)
        /\ Len(selected) <= Max2(num_frames, 1)
        /\ Len(selected) <= Len(candidates)

\* C3 as stated: with fewer than K candidates the selected list equals the
\* candidate list.
C3_FewerThanCountReturnsAll ==
    SelectorRan /\ Len(candidates) < num_frames => selected = candidates

\* C3 as amended: with fewer than K candidates, every two of which are at
\* least G frame indices apart, the selected list equals the candidate list.
C3_FewerThanCountSpacedReturnsAll ==
    SelectorRan /\ Len(candidates) < num_frames
                /\ NoTwoWithin(candidates, min_frame_gap)
        => selected = candidates

C3_Witness ==
    /\ sel_pc = "select_by_sharpness_only"
    /\ Len(candidates) = 2
    /\ num_frames = 3
    /\ candidates[1].frame_number = 0
    /\ candidates[2].frame_number = 15
    /\ selected = candidates

(***************************************************************************)
(* Claims about region classification and aggregation.                     *)
(***************************************************************************)
ReplyConfidence == ConfidenceOr0(cls_response)

\* C8: a classification whose confidence is below the call site's floor is
\* never surfaced as-is: classify_region_grades answers grade 5.5 and label
\* "uncertain" below 0.30, classify_regions_with_nyckel answers the default
\* label below 0.70; at or above the floor the classifier's label (and its
\* LABEL_TO_GRADE grade) is the answer.
C8_ConfidenceFloor ==
    /\ (cls_pc = "classify_region_grades" /\ cls_crop /\ ~cls_response.raised =>
            IF ReplyConfidence < 30
            THEN cls_grade.grade = 550 /\ cls_grade.label = "uncertain"
            ELSE /\ cls_grade.label = LabelOr(cls_response, "moderate_wear")
                 /\ cls_grade.grade = LABEL_TO_GRADE(cls_grade.label))
    /\ (cls_pc = "classify_regions_with_nyckel" /\ cls_crop
                /\ ~cls_response.raised =>
            IF ReplyConfidence < 70
            THEN cls_defect = <<"pristine">>
            ELSE cls_defect = <<LabelOr(cls_response, "pristine")>>)

C8_Witness ==
    /\ cls_pc = "classify_region_grades"
    /\ ~cls_response.raised
    /\ cls_response.labelName = "pristine"
    /\ cls_response.confidence = <<20>>
    /\ cls_grade.grade = 550
    /\ cls_grade.label = "uncertain"

GradeOf(r) == region_grades[r].grade

Contiguous(chunks) ==
    \A k \in 1..(Len(chunks) - 1) : chunks[k + 1].start_frame <= chunks[k].end_frame

\* every frame index the sample rate selects is visited by some worker
CoversEverySampledFrame(chunks, total_frames, rate) ==
    \A n \in 0..(total_frames - 1) :
        n % rate = 0 => \E k \in 1..Len(chunks) : n \in ChunkFrames(chunks[k])

\* C10: for every totalFrames >= 1 the chunk ranges are contiguous and
\* together cover every frame index in [0, totalFrames) (in analyze_video:
\* every multiple of the sample rate); no frame is left unassigned.
C10_ChunksCoverEveryFrame ==
    sch_pc \in {"analyze_video", "analyze_video_gpu"} /\ sch_total >= 1 =>
        /\ Contiguous(sch_chunks)
        /\ CoversEverySampledFrame(sch_chunks, sch_total,
               IF sch_pc = "analyze_video" THEN frame_sample_rate ELSE 1)

\* the part of C10 that holds: the sampling scheduler of analyze_video
C10_CpuChunksCoverEverySampledFrame ==
    sch_pc = "analyze_video" /\ sch_total >= 1 =>
        /\ Contiguous(sch_chunks)
        /\ CoversEverySampledFrame(sch_chunks, sch_total, frame_sample_rate)

\* the frames analyze_video_gpu assigns to no worker are exactly the last
\* total_frames % num_workers ones (with a single frame the overlap of the
\* first range still reaches it)
C10_GpuUnassignedTail ==
    sch_pc = "analyze_video_gpu" /\ sch_total >= 1 =>
        /\ Contiguous(sch_chunks)
        /\ \A n \in 0..(sch_total - 1) :
              (\E k \in 1..Len(sch_chunks) : n \in ChunkFrames(sch_chunks[k]))
                  <=> n < Max2(1, sch_total - (sch_total % Len(sch_chunks)))

\* the number of workers the scheduler that ran has started
SchedulerRan == sch_pc \in {"analyze_video", "analyze_video_gpu"}
num_workers == Len(sch_chunks)

\* C12 as stated: the number of chunk workers is
\* min(maxWorkers, max(2, totalFrames // minFramesPerChunk)), 3 for
\* totalFrames = 100 with 30 and 8, and always within 2..maxWorkers.
C12_NumWorkersOfTotalFrames ==
    /\ sch_pc = "analyze_video" =>
          /\ num_workers = Min2(100, Max2(2, sch_total \div 5))
          /\ 2 <= num_workers /\ num_workers <= 100
    /\ sch_pc = "analyze_video_gpu" =>
          /\ num_workers = Min2(8, Max2(2, sch_total \div 30))
          /\ 2 <= num_workers /\ num_workers <= 8
          /\ sch_total = 100 => num_workers = 3

\* C12: the number of chunk workers is min(maxWorkers, max(2, N //
\* minFramesPerChunk)) where N is the number of frames the workers analyse:
\* totalFrames in analyze_video_gpu (30 and 8), the totalFrames // 3 sampled
\* frames in analyze_video (5 and 100); it is 3 for totalFrames = 100 in
\* analyze_video_gpu and always within 2..maxWorkers.
C12_NumWorkersOfAnalysedFrames ==
    /\ sch_pc = "analyze_video" =>
          /\ num_workers = Min2(100, Max2(2, (sch_total \div 3) \div 5))
          /\ 2 <= num_workers /\ num_workers <= 100
    /\ sch_pc = "analyze_video_gpu" =>
          /\ num_workers = Min2(8, Max2(2, sch_total \div 30))
          /\ 2 <= num_workers /\ num_workers <= 8
          /\ sch_total = 100 => num_workers = 3

\* both caps are reached and the example of the specification is run
C12_Witness ==
    sch_pc = "analyze_video_gpu" /\ sch_total = 100 /\ num_workers = 3
C12_WitnessCaps ==
    \/ sch_pc = "analyze_video" /\ num_workers = 100
    \/ sch_pc = "analyze_video_gpu" /\ num_workers = 8 /\ sch_total > 8 * 30

(***************************************************************************)
(* Claims about the chunk workers.                                         *)
(***************************************************************************)
ChunksRan == chk_pc \in {"analyze_video", "analyze_video_gpu"}

\* C9: for the same motion threshold, the set of candidates obtained by
\* concatenating the outputs of all chunk workers equals the set a single
\* pass of the same worker over the full frame range produces: the same
\* frame indices with the same motion values.
C9_ChunksEqualSinglePass ==
    ChunksRan => Range(chk_all) = Range(chk_single)

\* what does hold: a worker emits its frames in increasing order, each at
\* most once, and the concatenation only holds frames of the video
C9_ChunkOutputsOrdered ==
    ChunksRan =>
        /\ \A k \in 1..Len(chk_results) :
              \A i, j \in 1..Len(chk_results[k]) :
                  i < j => chk_results[k][i].frame_number
                               < chk_results[k][j].frame_number
        /\ \A c \in Range(chk_all) : c.frame_number \in 0..(Len(chk_video) - 1)

\* no frame index occurs at two positions of a candidate list
FrameIndexUnique(cands) ==
    \A i, j \in 1..Len(cands) :
        cands[i].frame_number = cands[j].frame_number => i = j

\* C11: in the concatenated candidate list of one video no frame index
\* appears more than once; a frame on a chunk boundary, the 1-frame overlap
\* of the GPU scheduler included, contributes at most one candidate.
C11_FrameIndexUnique ==
    ChunksRan => FrameIndexUnique(chk_all)

\* the part of C11 that holds: the ranges of analyze_video do not overlap
C11_CpuFrameIndexUnique ==
    chk_pc = "analyze_video" => FrameIndexUnique(chk_all)

\* in analyze_video_gpu every frame that starts a later chunk and is read
\* by the chunk before it too is listed twice when the earlier worker finds
\* it stable
C11_GpuOverlapListedTwice ==
    chk_pc = "analyze_video_gpu" =>
        \A k \in 2..Len(chk_results) :
            \A c \in Range(chk_results[k - 1]) :
                (chk_results[k] # <<>> /\ c.frame_number = chk_results[k][1].frame_number)
                    => ~FrameIndexUnique(chk_all)

(***************************************************************************)
(* Claims about the analyze_video job.                                     *)
(***************************************************************************)
Returned == pc = "returned"

\* C2: when the candidate list is empty the run ends in a job-terminal
\* failure; it never returns a success result with zero golden frames.
C2_EmptyCandidatesFail ==
    /\ Returned => all_candidates # <<>>
    /\ Returned => ~(result[1].success /\ result[1].goldenFrames = <<>>)

\* what does hold: a run that returns always returns success = True, with
\* one golden frame per selected frame
C2_ReturnIsAlwaysSuccess ==
    Returned =>
        /\ result[1].success
        /\ Len(result[1].goldenFrames) = Len(frames_selected)
        /\ (all_candidates = <<>> => result[1].goldenFrames = <<>>)

(***************************************************************************)
(* Claims about the fan-in.                                                *)
(***************************************************************************)
FanInRan == fan_pc \in {"analyze_video", "analyze_video_gpu"}

\* no two candidates of the list have the same sharpness
DistinctSharpness(cands) ==
    \A i, j \in 1..Len(cands) : cands[i].sharpness = cands[j].sharpness => i = j

ChunkCandidates(k) ==
    analyze_frame_chunk(job_video, job_chunk_params[k].start_frame,
                        job_chunk_params[k].end_frame,
                        job_chunk_params[k].sample_rate)

AllWorkersDone == \A k \in 1..Len(workers) : workers[k].st = "done"

C14_BoundedRetry ==
    \A k \in 1..Len(workers) :
        /\ workers[k].attempt <= 3
        /\ workers[k].st = "done" /\ ~workers[k].exists
              => workers[k].candidates = <<>>
        /\ workers[k].st = "done" /\ workers[k].exists
              => workers[k].candidates = ChunkCandidates(k)
        /\ pc # "failed"

\* C14: a worker whose source video is not visible waits at most 3 times,
\* reloading the volume each time; if the source still cannot be opened it
\* returns an empty list, and if the source has become visible it analyses
\* its range; it never raises and it always terminates.
C14_WorkerRetriesAndTerminates ==
    /\ []C14_BoundedRetry
    /\ <>AllWorkersDone

\* one worker gave up after its 3 waits, another saw the file on a retry
C14_Witness ==
    /\ \E k \in 1..Len(workers) :
          /\ workers[k].st = "done" /\ workers[k].attempt = 3
          /\ ~workers[k].exists /\ workers[k].candidates = <<>>
    /\ \E k \in 1..Len(workers) :
          /\ workers[k].st = "done" /\ workers[k].attempt \in 1..3
          /\ workers[k].exists /\ workers[k].candidates # <<>>

(***************************************************************************)
(* Claims about the collection of the workers' results.                    *)
(***************************************************************************)
\* the candidates of the first n workers, in chunk order
RECURSIVE CandidatesOfFirst(_)
CandidatesOfFirst(n) ==
    IF n = 0 THEN <<>> ELSE CandidatesOfFirst(n - 1) \o workers[n].candidates

Selecting == pc \in {"extract", "nyckel", "cv", "upload", "cleanup", "returned"}

\* C15: an empty candidate list returned by one worker does not fail the
\* job: every other worker's candidates are still collected, and the
\* downstream stages run on whatever was collected.
C15_EmptyWorkerListTolerated ==
    /\ pc = "collect" => all_candidates = CandidatesOfFirst(collected)
    /\ Selecting =>
          /\ collected = Len(workers)
          /\ Range(all_candidates) = Range(CandidatesOfFirst(Len(workers)))
          /\ Len(all_candidates) = Len(CandidatesOfFirst(Len(workers)))
    /\ pc = "failed" /\ workers # <<>> =>
          \/ error = "FunctionTimeoutError"
                /\ \E k \in 1..Len(workers) : workers[k].st = "timeout"
          \/ error = "Exception" /\ golden_frames # <<>>

\* a job returns golden frames although one worker, whose range held
\* stable frames, returned an empty list
C15_Witness ==
    /\ Returned
    /\ result[1].goldenFrames # <<>>
    /\ \E k \in 1..Len(workers) :
          /\ workers[k].candidates = <<>>
          /\ ~workers[k].exists
          /\ ChunkCandidates(k) # <<>>

\* C16: if one worker exceeds its timeout the job continues: the worker
\* contributes an empty or partial list and the candidates of every other
\* worker still reach the selector.
C16_WorkerTimeoutTolerated ==
    (\E k \in 1..Len(workers) : workers[k].st = "timeout") => pc # "failed"

\* what does hold: a timeout of any worker ends the job, which never gets
\* as far as the selection
C16_WorkerTimeoutEndsJob ==
    (\E k \in 1..Len(workers) : workers[k].st = "timeout")
        => pc \in {"collect", "failed"} /\ frames_selected = <<>>

(***************************************************************************)
(* Claims about the frame selection of analyze_video.                      *)
(***************************************************************************)
FrameNumbers(sel) == [i \in 1..Len(sel) |-> sel[i].frame_number]

\* C17: when the visibility classifier is unavailable or errors (the token
\* request raises, or every visibility call fails) the frames selected are
\* exactly those the sharpness-only algorithm selects from the full sorted
\* candidate list.
C17_ClassifierFailureFallsBack ==
    cov_pc \in {"token_raises", "all_calls_fail"} =>
        FrameNumbers(cov_selected) = FrameNumbers(cov_default)

\* what does hold: the fallback is exact when the token request raises,
\* and, when every visibility call fails, for lists of up to 20 candidates
C17_FallbackWithinMaxCandidates ==
    /\ cov_pc = "token_raises" => cov_selected = cov_default
    /\ cov_pc = "all_calls_fail" /\ Len(cov_candidates) <= 20 =>
          FrameNumbers(cov_selected) = FrameNumbers(cov_default)
    /\ cov_pc = "all_calls_fail" =>
          FrameNumbers(cov_selected)
              = FrameNumbers(select_by_sharpness_only(
                    SubSeq(cov_candidates, 1, Min2(20, Len(cov_candidates))), 5))

\* ---- analysis fallback (analyze_video) ----

\* the step of the ML grade analysis, ending with or without a result
NyckelStep == pc = "nyckel" /\ pc' # "nyckel"

\* the step of the variance-based analysis
CvStep == pc = "cv" /\ pc' # "cv"

\* C18: when the ML grade analysis returns no result or raises, the
\* variance-based analysis runs next, and it runs in that case only; when the
\* variance-based analysis also returns no result or raises, the job goes on
\* to the upload with its golden frames and no analysis, without failing, and
\* the result that is returned holds these golden frames and that analysis.
C18_AnalysisFallback ==
    [][/\ NyckelStep =>
            /\ pc' = (IF analysis_result' = None THEN "cv" ELSE "upload")
            /\ analysis_result' \in {None, "nyckel-ml"}
            /\ golden_frames' = golden_frames /\ error' = error
       /\ pc' = "cv" => pc \in {"nyckel", "cv"} /\ analysis_result' = None
       /\ CvStep =>
            /\ pc' = "upload"
            /\ analysis_result' \in {None, "cv"}
            /\ golden_frames' = golden_frames /\ error' = error
       /\ pc = "upload" /\ pc' = "cleanup" =>
            /\ result'[1].analysis = analysis_result
            /\ result'[1].goldenFrames =
                  [i \in 1..Len(golden_frames) |-> golden_frames[i].frame_number]
       /\ pc = "cleanup" /\ pc' = "returned" => result' = result]_vars

\* a job returned its golden frames with no analysis: both analyses ended
\* without a result
C18_Witness ==
    /\ Returned
    /\ result[1].analysis = None
    /\ Len(result[1].goldenFrames) >= 2

\* ---- uploads (upload_golden_frames) ----

\* C19: a failed upload of a single artifact does not end the job: the upload
\* step does not raise, the job goes on to its cleanup and the result is
\* returned with the artifacts whose upload succeeded.
C19_FailedUploadNotTerminal ==
    [][pc = "upload" => pc' \in {"upload", "cleanup"} /\ error' = error]_vars

\* what does hold: a job that returns uploaded every golden frame it had
C19_ReturnHoldsEveryGoldenFrame ==
    Returned => Len(result[1].goldenFrames) = Len(golden_frames)

\* ---- progress updates (update_progress) ----

ProgressCalled == prog_pc = "called"

\* what the caller of update_progress sees of a call
SeenByCaller(outcome) == [raised |-> outcome.raised, value |-> outcome.value]

\* C20: whatever the request does (an error status, a timeout, any
\* exception), update_progress returns normally, and its caller is left in
\* the same state as after a successful update: no exception, the value None.
C20_ProgressFailureNeverFails ==
    ProgressCalled =>
        /\ ~prog_outcome[1].raised
        /\ SeenByCaller(prog_outcome[1]) =
              SeenByCaller(update_progress(prog_percentage, "200"))

\* a progress update timed out, the row not updated
C20_Witness ==
    /\ ProgressCalled
    /\ prog_response = "timeout"
    /\ prog_row # prog_percentage
    /\ prog_outcome[1].printed = "error"

\* ---- first frame and non-negativity (chunk workers, process_video) ----

\* some analysis of chk_video has run
AnalysisRan == chk_pc \notin {"idle", "input"}

\* the frame ranges that were analysed: the chunks of the job, or the whole
\* video for the single-pass functions
AnalysedRanges ==
    IF chk_pc = "analyze_video" THEN CpuChunkParams(Len(chk_video))
    ELSE IF chk_pc = "analyze_video_gpu" THEN GpuChunkParams(Len(chk_video))
    ELSE <<[start_frame |-> 0, end_frame |-> Len(chk_video), sample_rate |-> 1]>>

\* the first frame of the k-th range is emitted, with motion 0
FirstFrameEmitted(k) ==
    LET chunk == AnalysedRanges[k]
    IN  chunk.start_frame < chunk.end_frame /\ ReadOk(chk_video, chunk.start_frame)
            => \E c \in Range(chk_results[k]) :
                   c.frame_number = chunk.start_frame /\ c.motion = 0

\* C21: for every analysed sequence (the whole video or one worker's chunk)
\* the first frame gets motion exactly 0 and is emitted as a candidate, and
\* every emitted candidate has sharpness >= 0 and motion >= 0.
C21_FirstFrameStable ==
    AnalysisRan =>
        /\ \A k \in 1..Len(chk_results) : FirstFrameEmitted(k)
        /\ \A c \in Range(chk_all) : c.sharpness >= 0 /\ c.motion >= 0

\* what does hold: the functions of cv_worker.py and cv_worker_gpu.py emit
\* the first frame of each range, and no candidate of any function has a
\* negative sharpness or motion
C21_WorkersFirstFrameStable ==
    AnalysisRan =>
        /\ chk_pc # "process_video" =>
              \A k \in 1..Len(chk_results) : FirstFrameEmitted(k)
        /\ \A c \in Range(chk_all) : c.sharpness >= 0 /\ c.motion >= 0

\* process_video never emits frame 0
C21_ProcessVideoDropsFirstFrame ==
    chk_pc = "process_video" => \A c \in Range(chk_all) : c.frame_number # 0

\* ---- motion filter (chunk workers) ----

\* the threshold of the function that ran
MotionThreshold ==
    IF chk_pc = "analyze_video_gpu" THEN gpu_motion_threshold
    ELSE IF chk_pc = "process_video" THEN default_motion_threshold
    ELSE cpu_motion_threshold

\* frame n of the k-th range, not the first of the range, is emitted exactly
\* when the motion between it and the frame analysed before it is within
\* the threshold
HardFilter(k) ==
    LET chunk == AnalysedRanges[k]
    IN  \A n \in ChunkFrames(chunk) :
            n > chunk.start_frame /\ ReadOk(chk_video, n) =>
                ((\E c \in Range(chk_results[k]) : c.frame_number = n)
                    <=> OpticalFlowMotion(chk_video[n - chunk.sample_rate + 1].gray,
                                          chk_video[n + 1].gray) <= MotionThreshold)

\* C22: the motion filter is a hard filter in every worker variant: a frame
\* that is not the first of its sequence is emitted as a candidate if and
\* only if the motion between it and the previously analysed frame is within
\* the threshold, also when the GPU worker runs without CUDA.
C22_MotionFilterIsHard ==
    AnalysisRan => \A k \in 1..Len(chk_results) : HardFilter(k)

\* what does hold: the filter is hard in every variant but the GPU worker
\* without CUDA
C22_MotionFilterIsHardWithCuda ==
    AnalysisRan /\ ~(chk_pc = "analyze_video_gpu" /\ ~chk_cuda) =>
        \A k \in 1..Len(chk_results) : HardFilter(k)

\* the GPU worker without CUDA emits every frame it reads, with motion 0
C22_NoCudaEmitsEveryFrame ==
    chk_pc = "analyze_video_gpu" /\ ~chk_cuda =>
        \A k \in 1..Len(chk_results) :
            /\ {c.frame_number : c \in Range(chk_results[k])}
                  = {n \in ChunkFrames(AnalysedRanges[k]) : ReadOk(chk_video, n)}
            /\ \A c \in Range(chk_results[k]) : c.motion = 0

\* ---- the greedy pass (select_golden_frames, select_by_sharpness_only) ----

\* the position of a selected frame in the candidate list
PositionOf(c) == CHOOSE i \in 1..Len(candidates) : candidates[i] = c

\* the positions the loop looked at: up to the frame whose selection made
\* len(selected) >= num_frames, else the whole list
Examined ==
    IF selected # <<>> /\ Len(selected) >= num_frames
    THEN 1..PositionOf(selected[Len(selected)])
    ELSE 1..Len(candidates)

Dispatched == workers # <<>>

\* the step that starts the frame selection
SelectionStarts == pc = "collect" /\ pc' = "extract"

\* C24: in every run of analyze_video no chunk worker is dispatched before
\* the source video has been fully written to the shared volume and
\* committed, the file is not written again afterwards, and the frame
\* selection starts only after the result of every chunk worker has been
\* collected.
C24_StorageProtocolOrder ==
    /\ [](Dispatched => volume \in {"committed", "removed"})
    /\ [][/\ ~Dispatched /\ Dispatched' => volume = "written" /\ volume' = "committed"
          /\ Dispatched => volume' \in {volume, "removed"}
          /\ Dispatched /\ volume' = "removed" => pc = "cleanup"
          /\ SelectionStarts =>
                /\ collected = Len(workers)
                /\ \A k \in 1..Len(workers) : workers[k].st = "done"
                /\ all_candidates = CandidatesOfFirst(Len(workers))]_vars

\* the selection started with the results of several workers collected
C24_Witness ==
    /\ pc = "extract"
    /\ Len(workers) >= 2
    /\ volume = "committed"
    /\ \E k \in 1..Len(workers) : workers[k].attempt >= 1
    /\ frames_selected # <<>>

\* ---- alignment failure (align_frames, run_cv_analysis) ----

Aligned == aln_pc \in {"align_frames", "run_cv_analysis"}

\* frame i has no descriptors (or the reference has none), fewer than 4
\* matches, or no homography
NotAlignable(i) ==
    \/ aln_facts[i].desc = 0 \/ aln_ref_desc = 0
    \/ aln_facts[i].matches < 4
    \/ ~aln_facts[i].homography

\* C25: alignment failure is non-fatal and per frame: for every outcome of
\* keypoint detection, matching and homography estimation the aligner
\* returns exactly as many frames as it was given, the reference frame first
\* and unchanged, and a frame with no descriptors, fewer than 4 matches or a
\* failed homography is returned unwarped, as the original frame.
C25_AlignmentFailureKeepsFrame ==
    Aligned =>
        /\ Len(aln_aligned) = Len(aln_frames)
        /\ aln_frames # <<>> => aln_aligned[1] = aln_frames[1]
        /\ \A i \in 2..Len(aln_frames) :
              /\ aln_aligned[i].id = aln_frames[i].id
              /\ NotAlignable(i) => aln_aligned[i] = aln_frames[i]

\* of three frames one was warped and one, with fewer than 4 matches, was
\* returned as it came
C25_Witness ==
    /\ aln_pc = "run_cv_analysis"
    /\ Len(aln_frames) = 3
    /\ aln_aligned[2].warped
    /\ aln_facts[3].matches = 3
    /\ aln_aligned[3] = aln_frames[3]

\* ---- fusing identical frames ----

Fused == fus_pc \notin {"idle", "input"}

\* no pixel differs between the frames
IdenticalFrames == \A i \in 1..Len(fus_frames) : fus_frames[i] = fus_frames[1]

\* C26: fusing N >= 2 identical frames gives a cross-frame variance of
\* exactly 0 at every pixel and a well-defined binary mask, with no map
\* divided by its zero maximum; the mask is the one the single-frame
\* edge/texture composite gives on its own.
C26_IdenticalFramesFuse ==
    Fused /\ IdenticalFrames =>
        /\ \A p \in 1..FusePixels : fus_variance[p] = 0
        /\ ~fus_nan
        /\ fus_mask = GpuMask(CompositeMap(fus_frames))

\* what does hold: the variance of identical frames is 0 in every function,
\* and run_glint_analysis_gpu then takes its mask from the composite alone
C26_IdenticalFramesFuseGpu ==
    Fused /\ IdenticalFrames =>
        /\ \A p \in 1..FusePixels : fus_variance[p] = 0
        /\ fus_pc = "run_glint_analysis_gpu" =>
              ~fus_nan /\ fus_mask = GpuMask(CompositeMap(fus_frames))

\* create_defect_mask and run_cv_analysis divide by the zero maximum and
\* return an empty mask
C26_CpuMaskEmptyThroughNaN ==
    Fused /\ IdenticalFrames /\ fus_pc # "run_glint_analysis_gpu" =>
        fus_nan /\ \A p \in 1..FusePixels : ~fus_mask[p]

\* ---- dimensions of the fused map and the mask ----

Analysed == shp_pc \in {"run_glint_analysis_gpu", "run_cv_analysis"}

\* the analysis ran through, and fused map, mask and variance map have the
\* shape of the reference frame
SameDimensions(out) ==
    /\ ~out.raised
    /\ out.fused = out.reference
    /\ out.mask = out.reference
    /\ out.variance = out.fused

\* C27: in every analysis run the fused defect map and the binary mask have
\* the same spatial dimensions as the reference frame and as the cross-frame
\* variance map they are blended with, whether the perspective warp or the
\* object localization succeeded for all, some or none of the frames.
C27_SameDimensions ==
    Analysed => SameDimensions(shp_out[1])

\* what does hold: run_cv_analysis keeps one shape throughout, and so does
\* run_glint_analysis_gpu when the frame it analyses first has the size of
\* the loaded frames (its warp failed, no warp succeeded, or the warp came
\* out at the frame's size)
C27_SameDimensionsUnlessFirstWarped ==
    Analysed /\ (shp_pc = "run_glint_analysis_gpu" /\ shp_warp[1] # <<>>
                    => shp_warp[1] = shp_frames[1])
        => SameDimensions(shp_out[1])

\* with two or more frames and the first warped to another size the blend
\* of run_glint_analysis_gpu raises
C27_GpuBlendRaises ==
    /\ shp_pc = "run_glint_analysis_gpu"
    /\ Len(shp_frames) >= 2
    /\ shp_warp[1] \notin {<<>>, shp_frames[1]}
    => shp_out[1].raised

\* ---- detect_comic_boundaries ----

BoxReturned == box_pc = "returned"

\* the bounding box covers less than 30% of the frame area
TooSmall == 10 * box_rect.w * box_rect.h < 3 * box_frame[1] * box_frame[2]

JobEnded == pc \in {"returned", "failed"}

\* the source video was written to the shared volume in full
VideoWritten == volume \in {"written", "committed", "removed"}

\* C29: at job end the job's staging directory on the shared volume is
\* deleted: every run of analyze_video that wrote the source video to the
\* shared volume has removed /video/<scan_id> when it terminates, whether it
\* returns a result or ends in a failure.
C29_VolumeRemovedAtJobEnd ==
    JobEnded /\ VideoWritten => volume = "removed"

\* what does hold: the directory is removed on the returning path only, and
\* there only if shutil.rmtree succeeds
C29_VolumeRemovedOnlyOnReturn ==
    /\ pc = "failed" => volume # "removed"
    /\ volume = "removed" => pc \in {"cleanup", "returned"}
    /\ pc = "returned" => volume \in {"committed", "removed"}

\* ---- progress reports (analyze_video) ----

\* the reports of a run with and without an ML analysis result
ProgressWithMl == <<5, 15, 25, 50, 60, 70, 85, 95, 100>>

ProgressWithoutMl == <<5, 15, 25, 50, 60, 70, 95, 100>>

IsPrefix(a, b) == Len(a) <= Len(b) /\ SubSeq(b, 1, Len(a)) = a

\* C30: over any run of analyze_video the progress percentages sent are
\* strictly increasing and within 0..100, namely 5, 15, 25, 50, 60, 70,
\* optionally 85 (sent exactly when the ML analysis gave a result), 95, 100;
\* and 100 is sent if and only if the run returns a result, after the upload
\* step and the cleanup attempt.
C30_ProgressMonotone ==
    /\ \A i \in 1..Len(progress) : progress[i] \in 0..100
    /\ \A i \in 1..(Len(progress) - 1) : progress[i] < progress[i + 1]
    /\ IsPrefix(progress, ProgressWithMl) \/ IsPrefix(progress, ProgressWithoutMl)
    /\ 85 \in Range(progress) =>
          analysis_result = "nyckel-ml" /\ progress[Len(ProgressWithMl) - 2] = 85
    /\ 95 \in Range(progress) => result # <<>>
    /\ 100 \in Range(progress) <=> Returned
    /\ Returned => result # <<>> /\ progress[Len(progress)] = 100
    /\ pc \in {"upload", "cleanup", "returned"} /\ analysis_result = "nyckel-ml"
          => 85 \in Range(progress)

\* a run returned without an ML result: 85 was never sent
C30_Witness ==
    /\ Returned
    /\ progress = ProgressWithoutMl
    /\ analysis_result = "cv"

====
